---------------------------- MODULE WorkerLimits ----------------------------
(***************************************************************************)
(* What one task may use up in the worker that executes it                 *)
(* (src/lilith/research.py, executive.py, capabilities.py): the constants  *)
(* of Research, Executive and Command.                                     *)
(***************************************************************************)
EXTENDS Integers

CONSTANTS Requests,     \* request_limit of a research
          Bytes,        \* its byte_limit
          PageLimit,    \* the bytes of one response
          Chunk,        \* the bytes of one read
          Hops,         \* requests that one get may make, redirects included
          Urls,         \* the pages of one research
          Steps,        \* the most steps that an executive's budget may grant
          Capture,      \* the bytes of a command's output that are kept
          MaxWritten    \* bound: the bytes that a command writes

ASSUME ResearchLimits == {Requests, Bytes, PageLimit, Chunk, Hops, Urls} \subseteq Nat \ {0}
ASSUME ExecutiveLimit == Steps \in Nat \ {0}
ASSUME CommandLimits == {Capture, MaxWritten} \subseteq Nat \ {0}

=============================================================================
