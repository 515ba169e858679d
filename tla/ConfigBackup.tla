---------------------------- MODULE ConfigBackup ----------------------------
(***************************************************************************)
(* The configuration: setup() reads the file "/config" of the SD card, if  *)
(* there is one, and copies its text to the first sector of the flash; if  *)
(* there is none it takes the copy.  SDConfig.cpp, and writeConfigFlash    *)
(* and readConfigFlash of SPIFlashMeter.cpp.                               *)
(*                                                                         *)
(* The old copy is erased before the new one is written, the text is not   *)
(* looked at before it is copied, and the result of no flash call is       *)
(* looked at.  toCharArray is given the length of the text as the size of  *)
(* its buffer, and puts a NUL where the last character was.                *)
(***************************************************************************)
EXTENDS Integers, FiniteSets

CONSTANTS Files,        \* texts a card may hold
          Length,       \* characters of a text
          Close,        \* the place of the brace that closes it; 0: no JSON text
          PageSize,     \* characters of a flash page
          ConfigPages,  \* pages of the sector
          NoCard,       \* no card, or no file on it
          Nothing,      \* the text that is read when the file has gone
          Blank, Torn,  \* content of a page that is no text
          Unset,        \* the configuration when there is none: all zero
          Mixed,        \* a configuration that no file ever held
          MaxSwaps,     \* bound: changes of the card
          MaxFaults,    \* bound: disturbed flash operations
          MaxResets     \* bound: resets of the logger

Texts == Files \union {Nothing}

ASSUME ConfigAssumption ==
  /\ PageSize \in Nat \ {0} /\ ConfigPages \in Nat \ {0}
  /\ Length \in [Texts -> Nat] /\ Close \in [Texts -> Nat]
  /\ \A t \in Texts : Length[t] < PageSize * ConfigPages \* else buff overflows
  /\ \A t \in Texts : Close[t] <= Length[t]
  /\ Files # {} /\ Nothing \notin Files /\ Length[Nothing] = 0
  /\ NoCard \notin Texts /\ Unset \notin Texts /\ Mixed \notin Texts /\ Unset # Mixed
  /\ Blank # Torn
  /\ MaxSwaps \in Nat /\ MaxFaults \in Nat /\ MaxResets \in Nat

Pages == 0 .. ConfigPages - 1

\* What a page holds: a part of a text, by the text and the page's number.
Part == Texts \X Pages

ASSUME PartAssumption == Blank \notin Part /\ Torn \notin Part

VARIABLES
  pc,      \* "mount", "load", "erase", "write", "restore" or "run"
  card,    \* the file on the card
  pages,   \* the content of the sector
  text,    \* the text in RAM
  page,    \* the page that is written next
  cfg,     \* cfgG, cfgM, cfgS and cfgF
  source,  \* where cfg comes from
  owed,    \* history: the configuration the copy has to give, or Unset
  spoilt,  \* history: the sector was disturbed, or holds what lay on the stack
  swaps, faults, resets

ram  == <<text, page, cfg, source>>
hist == <<owed, spoilt>>
vars == <<pc, card, pages, ram, hist, swaps, faults, resets>>

Init ==
  /\ pc = "mount"
  /\ card \in Files \union {NoCard}
  /\ pages = [k \in Pages |-> Blank]
  /\ text = Nothing /\ page = 0 /\ cfg = Unset /\ source = "none"
  /\ owed = Unset /\ spoilt = FALSE
  /\ swaps = 0 /\ faults = 0 /\ resets = 0

Fault == faults < MaxFaults /\ faults' = faults + 1

-----------------------------------------------------------------------------
(* Texts                                                                    *)

\* parseObject() accepts the text.
Valid(t) == Close[t] > 0

\* The copy can be parsed: the brace is not the last character.
Copyable(t) == Valid(t) /\ Close[t] < Length[t]

PageOf(place) == (place - 1) \div PageSize

\* The whole of t up to its closing brace is in the sector.
Holds(p, t) == Valid(t) /\ \A k \in 0 .. PageOf(Close[t]) : p[k] = <<t, k>>

\* The sector holds the first n pages of t and nothing else.
CutAt(p, t, n) == \A k \in Pages : p[k] = IF k < n THEN <<t, k>> ELSE Blank

\* A fault the runs must notice: the text is used without being parsed.
ParsedUnread(p) == {p[0]}

\* What phaseConfig() makes of the sector.  A text that ends too early leaves
\* all at zero.  Pages of several texts, torn pages and what lay on the stack
\* may look like anything.
Parsed(p) ==
  IF \E t \in Texts : Holds(p, t)
  THEN LET t == CHOOSE t \in Texts : Holds(p, t) IN {IF Copyable(t) THEN t ELSE Unset}
  ELSE IF \E t \in Files, n \in 0 .. ConfigPages : CutAt(p, t, n) THEN {Unset}
  ELSE {Unset, Mixed}

-----------------------------------------------------------------------------
(* setup()                                                                  *)

\* begin() and isConfigFileValid(): can the file be opened?
Mount ==
  /\ pc = "mount"
  /\ pc' = IF card = NoCard THEN "restore" ELSE "load"
  /\ UNCHANGED <<card, pages, ram, hist, swaps, faults, resets>>

\* readConfig(path): the file is opened again, read and parsed.
Load ==
  /\ pc = "load" /\ pc' = "erase"
  /\ text' = IF card = NoCard THEN Nothing ELSE card
  /\ cfg' = IF Valid(text') THEN text' ELSE Unset
  /\ source' = "card"
  /\ UNCHANGED <<card, pages, page, hist, swaps, faults, resets>>

\* What may become of a sector whose erase is disturbed.
HalfErased ==
  {[k \in Pages |-> CASE half[k] = "old"   -> pages[k]
                      [] half[k] = "blank" -> Blank
                      [] half[k] = "torn"  -> Torn] :
     half \in [Pages -> {"old", "blank", "torn"}]}

\* A fault the runs must notice: the old copy is not erased.
EraseNothing ==
  /\ pc = "erase" /\ pc' = "write"
  /\ page' = 0 /\ owed' = Unset
  /\ spoilt' = FALSE
  /\ UNCHANGED <<card, pages, text, cfg, source, swaps, faults, resets>>

\* eraseSector(); its result is not looked at.
Erase ==
  /\ pc = "erase" /\ pc' = "write"
  /\ page' = 0 /\ owed' = Unset
  /\ \/ pages' = [k \in Pages |-> Blank] /\ spoilt' = FALSE /\ UNCHANGED faults
     \/ pages' \in HalfErased /\ spoilt' = TRUE /\ Fault
  /\ UNCHANGED <<card, text, cfg, source, swaps, resets>>

\* A fault the runs must notice: one page too few.
LastPageBefore == Length[text] \div PageSize - 1

LastPage == Length[text] \div PageSize

\* The driver refuses to program a page that is not blank.
Programmed(c) == IF pages[page] = Blank THEN [pages EXCEPT ![page] = c] ELSE pages

\* writeCharArray(); its result is not looked at, and the loop goes on.
WritePage ==
  /\ pc = "write" /\ page <= LastPage
  /\ \/ pages' = Programmed(<<text, page>>) /\ UNCHANGED faults
        /\ spoilt' = (spoilt \/ text = Nothing)
     \/ pages' \in {pages, Programmed(Torn)} /\ spoilt' = TRUE /\ Fault
  /\ page' = page + 1
  /\ UNCHANGED <<pc, card, text, cfg, source, owed, swaps, resets>>

Written ==
  /\ pc = "write" /\ page > LastPage /\ pc' = "run"
  /\ owed' = IF Copyable(text) /\ ~spoilt THEN text ELSE Unset
  /\ UNCHANGED <<card, pages, ram, spoilt, swaps, faults, resets>>

\* readConfig(readConfigFlash())
Restore ==
  /\ pc = "restore" /\ pc' = "run"
  /\ cfg' \in Parsed(pages)
  /\ source' = "flash"
  /\ UNCHANGED <<card, pages, text, page, hist, swaps, faults, resets>>

-----------------------------------------------------------------------------
(* The operator, and resets                                                 *)

Swap ==
  /\ swaps < MaxSwaps /\ swaps' = swaps + 1
  /\ card' \in (Files \union {NoCard}) \ {card}
  /\ UNCHANGED <<pc, pages, ram, hist, faults, resets>>

Reboot ==
  /\ pc' = "mount"
  /\ text' = Nothing /\ page' = 0 /\ cfg' = Unset /\ source' = "none"
  /\ UNCHANGED <<card, swaps, faults>>

\* The daily restart, or one that is ordered.
Restart == pc = "run" /\ Reboot /\ UNCHANGED <<pages, hist, resets>>

\* A reset; in an erase or in the programming of a page it leaves them half done.
Reset ==
  /\ resets < MaxResets /\ resets' = resets + 1
  /\ Reboot
  /\ \/ UNCHANGED <<pages, hist>>
     \/ pc = "erase" /\ owed' = Unset /\ spoilt' = TRUE /\ pages' \in HalfErased
     \/ /\ pc = "write" /\ page <= LastPage
        /\ pages' \in {Programmed(Torn), Programmed(<<text, page>>)}
        /\ spoilt' = TRUE /\ UNCHANGED owed

Next == Mount \/ Load \/ Erase \/ WritePage \/ Written \/ Restore \/ Swap \/ Restart \/ Reset

Spec == Init /\ [][Next]_vars

-----------------------------------------------------------------------------

\* The type of the state.
TypeOK ==
  /\ pc \in {"mount", "load", "erase", "write", "restore", "run"}
  /\ card \in Files \union {NoCard}
  /\ pages \in [Pages -> Part \union {Blank, Torn}]
  /\ text \in Texts /\ page \in 0 .. ConfigPages
  /\ cfg \in Texts \union {Unset, Mixed} /\ source \in {"none", "card", "flash"}
  /\ owed \in Files \union {Unset} /\ spoilt \in BOOLEAN
  /\ swaps \in 0 .. MaxSwaps /\ faults \in 0 .. MaxFaults /\ resets \in 0 .. MaxResets

\* A logger that starts without its card runs with the configuration that was
\* copied last, whatever cards and resets there were before the copy and
\* since.  Not covered are the time from the erase to the last page, a copy
\* that a fault has spoilt, and a text whose last character is its last brace.
BackupServes == pc = "run" /\ source = "flash" /\ owed # Unset => cfg = owed

\* Unless a flash operation was disturbed, or the card was pulled between the
\* two times its file is opened, the logger never runs with a configuration
\* put together from several texts, wherever resets fell between the pages.
NeverMixed == cfg = Mixed => spoilt

=============================================================================
