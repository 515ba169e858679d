----------------------------- MODULE FlashStore -----------------------------
(***************************************************************************)
(* What SPIFlashMeter counts on when it calls the flash driver, without    *)
(* the chip's protocol: a write changes blank cells only, an erase one     *)
(* sector; both may be cut short, and may go on after they were given up;  *)
(* what is confirmed is in the cells, and nothing is open any more.  With  *)
(* one exception: after a write that was given up the chip may be deaf to  *)
(* the very next erase, which is then confirmed although nothing was done. *)
(***************************************************************************)
EXTENDS Integers

CONSTANTS Cell,    \* the cells of the chip, an interval of the naturals
          Sector,  \* the sectors: sets of cells
          Datum,   \* what a write puts into a cell
          Blank, Torn

VARIABLES
  content, \* what the cells hold
  goal,    \* what the operation under way, or confirmed last, is for
  open,    \* the part of an operation that may still reach the cells
  phase,   \* "none", "begun" or "confirmed"
  deaf     \* an erase that comes next may be ignored

storeVars == <<content, goal, open, phase, deaf>>

NoGoal == [c \in {} |-> Blank]

StoreInit ==
  /\ content \in [Cell -> {Blank, Torn}]
  /\ goal = NoGoal /\ open = NoGoal /\ phase = "none"
  /\ deaf = FALSE

\* An operation is taken on.  Nothing is left of the one before.
Begin ==
  /\ phase = "none" /\ open = NoGoal
  /\ phase' = "begun" /\ open' = goal'
  /\ deaf' = FALSE
  /\ UNCHANGED content

\* The write of a stretch of cells, which are all blank.
BeginWrite ==
  /\ Begin
  /\ \E a, b \in Cell : /\ goal' \in [a .. b -> Datum]
                        /\ \A c \in a .. b : content[c] = Blank

BeginErase ==
  /\ Begin
  /\ \E S \in Sector : goal' = [c \in S |-> Blank]

\* The cells of T are done with: each holds what it was meant to, is torn, or
\* is as it was.  None of them is touched again.
Land(T) ==
  /\ open' = [c \in DOMAIN open \ T |-> open[c]]
  /\ content' \in [Cell -> Datum \union {Blank, Torn}]
  /\ \A c \in Cell : \/ content'[c] = content[c]
                     \/ c \in T /\ content'[c] \in {open[c], Torn}

Progress ==
  /\ \E T \in SUBSET DOMAIN open : Land(T)
  /\ deaf' \in {FALSE, deaf}
  /\ UNCHANGED <<goal, phase>>

\* The call fails, the logger is reset, or the caller goes on to another call.
\* A write that was under way may leave the chip deaf.
Leave ==
  /\ phase # "none"
  /\ \E T \in SUBSET DOMAIN open : Land(T)
  /\ phase' = "none" /\ goal' = NoGoal
  /\ deaf' \in BOOLEAN
  /\ deaf' => phase = "begun" /\ \A c \in DOMAIN goal : goal[c] \in Datum

\* The call returns true.  A write has been read back; an erase has not.
Confirm ==
  /\ phase = "begun" /\ open = NoGoal
  /\ \A c \in DOMAIN goal :
       content[c] = goal[c] \/ (goal[c] = Blank /\ content[c] = Torn)
  /\ phase' = "confirmed" /\ deaf' = FALSE
  /\ UNCHANGED <<content, goal, open>>

\* A deaf chip: an erase returns true, and the sector is as it was.
IgnoreErase ==
  /\ phase = "none" /\ open = NoGoal /\ deaf
  /\ \E S \in Sector : goal' = [c \in S |-> Blank]
  /\ phase' = "confirmed" /\ deaf' = FALSE
  /\ UNCHANGED <<content, open>>

StoreNext ==
  BeginWrite \/ BeginErase \/ Progress \/ Leave \/ Confirm \/ IgnoreErase

StoreSpec == StoreInit /\ [][StoreNext]_storeVars

=============================================================================
