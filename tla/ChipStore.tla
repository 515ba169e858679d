------------------------------ MODULE ChipStore ------------------------------
(* SPIFlashChip as a FlashStore: an operation is begun when its cells have     *)
(* been found blank, or when the chip takes the erase command.                 *)
EXTENDS SPIFlashChip

\* What the call is for.
Meant ==
  IF call.kind = "write" THEN [c \in Region(call) |-> <<writes, c - call.at>>]
  ELSE [c \in SectorOf(call.at) |-> Blank]

Writing == pc # "idle" /\ stage \in {"page", "verify"}
Erasing == pc # "idle" /\ stage = "wait" /\ call.obeyed
Confirmed == pc = "idle" /\ result /\ call.kind \in {"write", "erase"}

Phase == IF Writing \/ Erasing THEN "begun" ELSE IF Confirmed THEN "confirmed" ELSE "none"

Goal == IF Phase = "none" THEN NoJob ELSE Meant

\* The cells of the write that have not been sent.
Unsent == IF Writing THEN (call.at + done) .. (call.at + call.len - 1) ELSE {}

\* They may still change, and so may those of the chip's job, whoever asked
\* for it.
Open ==
  [c \in Unsent \union DOMAIN job |-> IF c \in Unsent THEN <<writes, c - call.at>> ELSE job[c]]

\* The chip was left in the middle of a read, and the next call, if it has come,
\* is an erase that the chip has not taken.
Deaf ==
  /\ Phase = "none"
  /\ IF pc = "idle" THEN streaming ELSE call.kind = "erase" /\ call.stale

Store == INSTANCE FlashStore
           WITH Cell <- Cells, Sector <- {SectorOf(c) : c \in Cells}, Datum <- Data,
                content <- cells, goal <- Goal, open <- Open, phase <- Phase, deaf <- Deaf

\* Through chip selects left low, data taken for a status, timeouts, resets and
\* power cuts the driver does to the chip what FlashStore says: writes go to
\* their own blank cells, nothing is begun while an older operation may still
\* change the cells, and what returned true has been done - but for an erase
\* that comes right after a write that did not verify, which may return true
\* with nothing done (IgnoreErase; ErasesDone says that it should not).
ImplementsStore == Store!StoreSpec

=============================================================================
