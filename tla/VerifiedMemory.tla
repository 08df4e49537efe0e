--------------------------- MODULE VerifiedMemory ---------------------------
(***************************************************************************)
(* What the write-back promises about the memory of one decided case: a    *)
(* receipt is issued at most once, for the content that is stored, and the *)
(* content it was issued for is never replaced by another.                 *)
(***************************************************************************)
CONSTANTS
  Contents,   \* what may be stored for the case
  Nothing     \* no content, no receipt

VARIABLES content, receipt
memoryVars == <<content, receipt>>

MemoryInit == content = Nothing /\ receipt = Nothing

Store(c) ==
  /\ receipt \in {Nothing, c}
  /\ content' = c
  /\ UNCHANGED receipt

IssueReceipt ==
  /\ content # Nothing
  /\ receipt = Nothing
  /\ receipt' = content
  /\ UNCHANGED content

MemoryNext == (\E c \in Contents : Store(c)) \/ IssueReceipt

MemorySpec == MemoryInit /\ [][MemoryNext]_memoryVars
=============================================================================
