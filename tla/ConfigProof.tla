----------------------------- MODULE ConfigProof -----------------------------
(***************************************************************************)
(* The copy of the configuration in the flash.                             *)
(*                                                                         *)
(* The argument: as long as the sector is not spoilt it holds the first    *)
(* pages of one text and is blank behind them, wherever a reset came, so   *)
(* that a restart never reads a mixture.  A copy that is owed has all of   *)
(* its text, and is touched only by the erase that ends the debt.          *)
(***************************************************************************)
EXTENDS ConfigBackup, TLAPS

-----------------------------------------------------------------------------
(* Pages *)

LEMMA DivParts ==
  ASSUME NEW a \in Nat, NEW b \in Nat \ {0}
  PROVE  \E q \in Nat, t \in 0 .. b - 1 : q = a \div b /\ a = b * q + t
<1> DEFINE q == a \div b
           t == a % b
<1>1. q \in Nat /\ t \in 0 .. b - 1
  OBVIOUS
<1>2. a = b * q + t
  OBVIOUS
<1> QED BY <1>1, <1>2

LEMMA Multiples ==
  ASSUME NEW m \in Nat \ {0}, NEW p \in Nat, NEW q \in Nat, p < q
  PROVE  m * p + m <= m * q
<1>1. PICK d \in Nat : q = p + 1 + d
  <2>1. q - p - 1 \in Nat /\ q = p + 1 + (q - p - 1)
    OBVIOUS
  <2> QED BY <2>1
<1>2. m * q = m * p + m + m * d /\ m * d \in Nat /\ m * p \in Nat
  BY <1>1
<1> QED BY <1>2

LEMMA DivMonotone ==
  ASSUME NEW a \in Nat, NEW c \in Nat, a <= c, NEW b \in Nat \ {0}
  PROVE  a \div b \in Nat /\ c \div b \in Nat /\ a \div b <= c \div b
<1>1. PICK q \in Nat, t \in 0 .. b - 1 : q = a \div b /\ a = b * q + t
  BY DivParts, Zenon
<1>2. PICK r \in Nat, u \in 0 .. b - 1 : r = c \div b /\ c = b * r + u
  BY DivParts, Zenon
<1>3. b * q \in Nat /\ b * r \in Nat
  OBVIOUS
<1>4. CASE r < q
  <2>1. b * r + b <= b * q
    BY <1>4, Multiples
  <2> QED BY <1>1, <1>2, <1>3, <2>1
<1> QED BY <1>1, <1>2, <1>4

LEMMA DivBelow ==
  ASSUME NEW a \in Nat, NEW b \in Nat \ {0}, NEW n \in Nat, a < b * n
  PROVE  a \div b \in Nat /\ a \div b < n
<1>1. PICK q \in Nat, t \in 0 .. b - 1 : q = a \div b /\ a = b * q + t
  BY DivParts, Zenon
<1>2. b * q \in Nat /\ b * n \in Nat
  OBVIOUS
<1>3. CASE n < q
  <2>1. b * n + b <= b * q
    BY <1>3, Multiples
  <2> QED BY <1>1, <1>2, <2>1
<1>4. CASE n = q
  BY <1>1, <1>2, <1>4
<1> QED BY <1>1, <1>3, <1>4

\* The last page of a text is a page of the sector, and the closing brace is
\* not behind it.
LEMMA TextFits ==
  ASSUME NEW t \in Texts
  PROVE  /\ Length[t] \div PageSize \in 0 .. ConfigPages - 1
         /\ Valid(t) => /\ PageOf(Close[t]) \in Nat
                        /\ PageOf(Close[t]) <= Length[t] \div PageSize
<1>1. /\ PageSize \in Nat \ {0} /\ ConfigPages \in Nat \ {0}
      /\ Length[t] \in Nat /\ Close[t] \in Nat /\ Close[t] <= Length[t]
      /\ Length[t] < PageSize * ConfigPages
  BY ConfigAssumption
<1>2. Length[t] \div PageSize \in Nat /\ Length[t] \div PageSize < ConfigPages
  BY <1>1, DivBelow
<1>3. ASSUME Valid(t)
      PROVE  PageOf(Close[t]) \in Nat /\ PageOf(Close[t]) <= Length[t] \div PageSize
  <2>1. Close[t] - 1 \in Nat /\ Close[t] - 1 <= Length[t]
    BY <1>1, <1>3 DEF Valid
  <2> QED BY <1>1, <2>1, DivMonotone DEF PageOf
<1> QED BY <1>1, <1>2, <1>3

LEMMA NothingInvalid == ~Valid(Nothing) /\ ~Copyable(Nothing)
  BY ConfigAssumption DEF Valid, Copyable, Texts

\* A sector gives one text at most.
LEMMA HeldOnce ==
  ASSUME NEW p, NEW t \in Texts, NEW u \in Texts, Holds(p, t), Holds(p, u) PROVE t = u
<1>1. p[0] = <<t, 0>> /\ p[0] = <<u, 0>>
  BY TextFits DEF Holds
<1> QED BY <1>1

\* What is read from a sector that holds a text.
LEMMA ParsedText ==
  ASSUME NEW p, NEW t \in Texts, Holds(p, t), Copyable(t) PROVE Parsed(p) = {t}
<1> DEFINE u == CHOOSE u \in Texts : Holds(p, u)
<1>1. u \in Texts /\ Holds(p, u)
  OBVIOUS
<1>2. u = t
  BY <1>1, HeldOnce
<1>3. Parsed(p) = {IF Copyable(u) THEN u ELSE Unset}
  BY DEF Parsed
<1> HIDE DEF u
<1> QED BY <1>2, <1>3

\* A sector with the first pages of one text is never taken for a mixture.
LEMMA ParsedCut ==
  ASSUME NEW p, NEW t \in Files, NEW n \in 0 .. ConfigPages, CutAt(p, t, n)
  PROVE  Mixed \notin Parsed(p)
<1> DEFINE u == CHOOSE u \in Texts : Holds(p, u)
<1>1. CASE \E v \in Texts : Holds(p, v)
  <2>1. u \in Texts
    BY <1>1
  <2>2. Parsed(p) = {IF Copyable(u) THEN u ELSE Unset}
    BY <1>1 DEF Parsed
  <2> HIDE DEF u
  <2> QED BY <2>1, <2>2, ConfigAssumption
<1>2. CASE ~\E v \in Texts : Holds(p, v)
  <2>1. Parsed(p) = {Unset}
    BY <1>2 DEF Parsed
  <2> QED BY <2>1, ConfigAssumption
<1> QED BY <1>1, <1>2

LEMMA ParsedType == ASSUME NEW p PROVE Parsed(p) \subseteq Texts \union {Unset, Mixed}
  BY DEF Parsed

-----------------------------------------------------------------------------
(* Types *)

\* TypeOK, and that the loop over the pages ends behind the last page.
TypeInv == TypeOK /\ (pc = "write" => page <= LastPage + 1)

LEMMA LastPageType == ASSUME TypeOK PROVE LastPage \in 0 .. ConfigPages - 1
  BY TextFits DEF TypeOK, LastPage

LEMMA HalfErasedType ==
  ASSUME TypeOK, NEW p \in HalfErased PROVE p \in [Pages -> Part \union {Blank, Torn}]
  BY DEF HalfErased, TypeOK

LEMMA ProgrammedType ==
  ASSUME TypeOK, NEW c \in Part \union {Blank, Torn}
  PROVE  Programmed(c) \in [Pages -> Part \union {Blank, Torn}]
  BY DEF Programmed, TypeOK

LEMMA TypeWrite == ASSUME TypeInv, WritePage PROVE TypeInv'
<1>1. /\ TypeOK /\ pc = "write" /\ page <= LastPage /\ page' = page + 1
      /\ UNCHANGED <<pc, card, text, cfg, source, owed, swaps, resets>>
  BY DEF TypeInv, WritePage
<1>2. LastPage \in 0 .. ConfigPages - 1 /\ page \in Nat
  BY <1>1, LastPageType DEF TypeOK
<1>3. page \in Pages /\ page' \in 0 .. ConfigPages /\ <<text, page>> \in Part
  BY <1>1, <1>2, ConfigAssumption DEF Pages, Part, TypeOK
<1>4. pages' \in [Pages -> Part \union {Blank, Torn}]
  <2>1. pages' \in {pages, Programmed(<<text, page>>), Programmed(Torn)}
    BY DEF WritePage
  <2> QED BY <1>1, <1>3, <2>1, ProgrammedType DEF TypeOK
<1>5. spoilt' \in BOOLEAN
  BY <1>1 DEF WritePage, TypeOK
<1>6. faults' \in 0 .. MaxFaults
  BY <1>1, ConfigAssumption DEF WritePage, Fault, TypeOK
<1>7. LastPage' = LastPage
  BY <1>1 DEF LastPage
<1> QED BY <1>1, <1>2, <1>3, <1>4, <1>5, <1>6, <1>7 DEF TypeInv, TypeOK

LEMMA TypeReboot ==
  ASSUME TypeInv, Reboot, pages' \in [Pages -> Part \union {Blank, Torn}],
         owed' \in {owed, Unset}, spoilt' \in BOOLEAN, resets' \in 0 .. MaxResets
  PROVE  TypeInv'
  BY ConfigAssumption DEF TypeInv, TypeOK, Reboot, Texts

LEMMA TypeReset == ASSUME TypeInv, Reset PROVE TypeInv'
<1>1. Reboot /\ resets' \in 0 .. MaxResets /\ TypeOK
  BY ConfigAssumption DEF Reset, TypeInv, TypeOK
<1>2. CASE UNCHANGED <<pages, hist>>
  BY <1>1, <1>2, TypeReboot DEF hist, TypeOK
<1>3. CASE pc = "erase" /\ owed' = Unset /\ spoilt' = TRUE /\ pages' \in HalfErased
  <2>1. pages' \in [Pages -> Part \union {Blank, Torn}]
    BY <1>1, <1>3, HalfErasedType
  <2> QED BY <1>1, <1>3, <2>1, TypeReboot
<1>4. CASE /\ pc = "write" /\ page <= LastPage
           /\ pages' \in {Programmed(Torn), Programmed(<<text, page>>)}
           /\ spoilt' = TRUE /\ UNCHANGED owed
  <2>1. LastPage \in 0 .. ConfigPages - 1 /\ page \in Nat
    BY <1>1, LastPageType DEF TypeOK
  <2>2. page \in Pages /\ <<text, page>> \in Part
    BY <1>1, <1>4, <2>1, ConfigAssumption DEF Pages, Part, TypeOK
  <2>3. pages' \in [Pages -> Part \union {Blank, Torn}]
    BY <1>1, <1>4, <2>2, ProgrammedType
  <2> QED BY <1>1, <1>4, <2>3, TypeReboot
<1> QED BY <1>2, <1>3, <1>4 DEF Reset

LEMMA ConfigTypeStep == TypeInv /\ [Next]_vars => TypeInv'
<1> SUFFICES ASSUME TypeInv, [Next]_vars PROVE TypeInv'
  OBVIOUS
<1>0. TypeOK
  BY DEF TypeInv
<1>1. CASE Mount
  BY <1>1 DEF Mount, ram, hist, TypeInv, TypeOK
<1>2. CASE Load
  <2>1. text' \in Texts /\ cfg' \in Texts \union {Unset, Mixed}
    BY <1>0, <1>2 DEF Load, Texts, TypeOK
  <2> QED BY <1>2, <2>1 DEF Load, hist, TypeInv, TypeOK
<1>3. CASE Erase
  <2>1. pages' \in [Pages -> Part \union {Blank, Torn}]
    <3>1. CASE pages' \in HalfErased
      BY <1>0, <3>1, HalfErasedType
    <3>2. CASE pages' = [k \in Pages |-> Blank]
      BY <3>2
    <3> QED BY <1>3, <3>1, <3>2 DEF Erase
  <2>2. spoilt' \in BOOLEAN
    BY <1>3 DEF Erase
  <2>3. faults' \in 0 .. MaxFaults
    BY <1>0, <1>3, ConfigAssumption DEF Erase, Fault, TypeOK
  <2>4. page' = 0
    BY <1>3 DEF Erase
  <2>5. pc' = "write" /\ owed' = Unset /\ UNCHANGED <<card, text, cfg, source, swaps, resets>>
    BY <1>3 DEF Erase
  <2>6. page' \in 0 .. ConfigPages
    BY <2>4, ConfigAssumption
  <2>7. TypeOK'
    BY <1>0, <2>1, <2>2, <2>3, <2>5, <2>6 DEF TypeOK
  <2>8. LastPage' = LastPage /\ LastPage \in Nat
    BY <1>0, <2>5, LastPageType DEF LastPage
  <2>9. 0 <= LastPage + 1
    BY <2>8
  <2>10. page' <= LastPage' + 1
    BY <2>4, <2>8, <2>9
  <2> QED BY <2>7, <2>10 DEF TypeInv
<1>4. CASE WritePage
  BY <1>4, TypeWrite
<1>5. CASE Written
  <2>1. owed' \in Files \union {Unset}
    BY <1>0, <1>5, NothingInvalid DEF Written, TypeOK, Texts
  <2> QED BY <1>5, <2>1 DEF Written, ram, TypeInv, TypeOK
<1>6. CASE Restore
  BY <1>6, ParsedType DEF Restore, hist, TypeInv, TypeOK
<1>7. CASE Swap
  <2>1. card' \in Files \union {NoCard} /\ swaps' \in 0 .. MaxSwaps
    BY <1>0, <1>7, ConfigAssumption DEF Swap, TypeOK
  <2>2. LastPage' = LastPage
    BY <1>7 DEF Swap, LastPage, ram
  <2> QED BY <1>7, <2>1, <2>2 DEF Swap, ram, hist, TypeInv, TypeOK
<1>8. CASE Restart
  BY <1>0, <1>8, TypeReboot DEF Restart, hist, TypeOK
<1>9. CASE Reset
  BY <1>9, TypeReset
<1>10. CASE UNCHANGED vars
  BY <1>10 DEF vars, ram, hist, TypeInv, TypeOK, LastPage
<1> QED
  BY <1>1, <1>2, <1>3, <1>4, <1>5, <1>6, <1>7, <1>8, <1>9, <1>10 DEF Next

LEMMA ConfigTypeInit == Init => TypeInv
<1> SUFFICES ASSUME Init PROVE TypeInv
  OBVIOUS
<1>1. pages \in [Pages -> Part \union {Blank, Torn}] /\ text \in Texts /\ spoilt \in BOOLEAN
  BY DEF Init, Texts
<1>2. page \in 0 .. ConfigPages /\ swaps \in 0 .. MaxSwaps
      /\ faults \in 0 .. MaxFaults /\ resets \in 0 .. MaxResets
  BY ConfigAssumption DEF Init
<1>3. /\ pc = "mount" /\ card \in Files \union {NoCard} /\ cfg = Unset /\ source = "none"
      /\ owed = Unset
  BY DEF Init
<1> QED BY <1>1, <1>2, <1>3 DEF TypeInv, TypeOK

\* The state of SDConfig and its copy is well typed: writeConfigFlash stays
\* inside its sector for every text that fits its buffer.
THEOREM ConfigTyped == Spec => []TypeOK
<1>1. TypeInv => TypeOK
  BY DEF TypeInv
<1> QED BY <1>1, ConfigTypeInit, ConfigTypeStep, PTL DEF Spec

-----------------------------------------------------------------------------
(* The copy *)

\* The sector holds the first pages of one text, and of the one that is being
\* written while it is written.
CutInv ==
  ~spoilt =>
    /\ \E t \in Files, n \in 0 .. ConfigPages : CutAt(pages, t, n)
    /\ pc = "write" => CutAt(pages, text, page) /\ (page > 0 => text \in Files)

\* A mixture is only read from a spoilt sector, and is gone at the next boot.
MixInv == cfg = Mixed => pc = "run" /\ spoilt

\* The copy that is owed is whole until it is erased.
OwedInv ==
  /\ pc \in {"erase", "write"} => source = "card"
  /\ source = "flash" => pc = "run"
  /\ owed # Unset => /\ Copyable(owed) /\ Holds(pages, owed) /\ pc # "write"
                     /\ source = "flash" => cfg = owed

CopyInv == CutInv /\ MixInv /\ OwedInv

LEMMA BlankSector ==
  ASSUME NEW p, p = [k \in Pages |-> Blank]
  PROVE  /\ \A t : CutAt(p, t, 0)
         /\ \E t \in Files, n \in 0 .. ConfigPages : CutAt(p, t, n)
<1>1. \A t : CutAt(p, t, 0)
  BY DEF CutAt, Pages
<1>2. Files # {} /\ 0 \in 0 .. ConfigPages
  BY ConfigAssumption
<1> QED BY <1>1, <1>2

\* The next page of the text is programmed: it was blank.
LEMMA CutGrows ==
  ASSUME TypeOK, page \in Pages, CutAt(pages, text, page)
  PROVE  CutAt(Programmed(<<text, page>>), text, page + 1)
<1>0. page \in Int /\ ~(page < page)
  BY DEF Pages
<1>1. pages[page] = Blank
  BY <1>0 DEF CutAt
<1>2. Programmed(<<text, page>>) = [pages EXCEPT ![page] = <<text, page>>]
  BY <1>1 DEF Programmed
<1>3. ASSUME NEW k \in Pages
      PROVE  [pages EXCEPT ![page] = <<text, page>>][k] =
               IF k < page + 1 THEN <<text, k>> ELSE Blank
  <2>1. k \in Int /\ pages \in [Pages -> Part \union {Blank, Torn}]
    BY DEF Pages, TypeOK
  <2>2. CASE k = page
    BY <1>0, <2>1, <2>2
  <2>3. CASE k # page
    BY <1>0, <2>1, <2>3 DEF CutAt
  <2> QED BY <2>2, <2>3
<1> QED BY <1>2, <1>3 DEF CutAt

\* A text all of whose pages are in the sector is held by it.
LEMMA CutHolds ==
  ASSUME NEW p, NEW t \in Texts, Copyable(t), CutAt(p, t, Length[t] \div PageSize + 1)
  PROVE  Holds(p, t)
<1>1. Valid(t)
  BY DEF Copyable
<1>2. /\ Length[t] \div PageSize \in 0 .. ConfigPages - 1 /\ PageOf(Close[t]) \in Nat
      /\ PageOf(Close[t]) <= Length[t] \div PageSize /\ ConfigPages \in Nat
  BY <1>1, TextFits, ConfigAssumption
<1>3. \A k \in 0 .. PageOf(Close[t]) : k \in Pages /\ k < Length[t] \div PageSize + 1
  BY <1>2 DEF Pages
<1> QED BY <1>1, <1>3 DEF Holds, CutAt

LEMMA CopyInit == Init => CopyInv
<1> SUFFICES ASSUME Init PROVE CopyInv
  OBVIOUS
<1>1. CutInv
  BY BlankSector DEF Init, CutInv
<1>2. MixInv /\ OwedInv
  BY ConfigAssumption DEF Init, MixInv, OwedInv
<1> QED BY <1>1, <1>2 DEF CopyInv

\* A step that leaves the sector as it is.
LEMMA CopyKept ==
  ASSUME TypeOK, CopyInv, UNCHANGED <<pages, owed, spoilt>>, pc' # "write",
         cfg' = Mixed => pc' = "run" /\ spoilt',
         pc' = "erase" => source' = "card",
         source' = "flash" => pc' = "run" /\ (owed # Unset => cfg' = owed)
  PROVE  CopyInv'
<1>1. CutInv'
  BY DEF CopyInv, CutInv, CutAt
<1>2. MixInv'
  BY DEF MixInv
<1>3. OwedInv'
  BY DEF CopyInv, OwedInv, Holds
<1> QED BY <1>1, <1>2, <1>3 DEF CopyInv

LEMMA CopyReboot ==
  ASSUME CopyInv, Reboot, spoilt', owed' \in {owed, Unset},
         owed' # Unset => pages' = pages \/ pc = "write"
  PROVE  CopyInv'
<1>1. CutInv'
  BY DEF CutInv
<1>2. MixInv'
  BY ConfigAssumption DEF MixInv, Reboot
<1>3. OwedInv'
  BY ConfigAssumption DEF CopyInv, OwedInv, Reboot, Holds
<1> QED BY <1>1, <1>2, <1>3 DEF CopyInv

LEMMA CopyStep == TypeInv /\ CopyInv /\ [Next]_vars => CopyInv'
<1> SUFFICES ASSUME TypeInv, CopyInv, [Next]_vars PROVE CopyInv'
  OBVIOUS
<1>0. TypeOK
  BY DEF TypeInv
<1>1. CASE Mount
  BY <1>0, <1>1, CopyKept DEF Mount, ram, hist, CopyInv, MixInv, OwedInv
<1>2. CASE Load
  <2>1. cfg' # Mixed
    <3>1. text' \in Texts
      BY <1>0, <1>2 DEF Load, Texts, TypeOK
    <3> QED BY <1>2, <3>1, ConfigAssumption DEF Load
  <2> QED BY <1>0, <1>2, <2>1, CopyKept DEF Load, hist
<1>3. CASE Erase
  <2>1. /\ pc = "erase" /\ pc' = "write" /\ page' = 0 /\ owed' = Unset
        /\ UNCHANGED <<text, cfg, source>>
        /\ spoilt' \/ pages' = [k \in Pages |-> Blank]
    BY <1>3 DEF Erase
  <2>2. CutInv'
    <3>1. CASE pages' = [k \in Pages |-> Blank]
      BY <2>1, <3>1, BlankSector DEF CutInv
    <3> QED BY <2>1, <3>1 DEF CutInv
  <2>3. MixInv' /\ OwedInv'
    BY <2>1 DEF CopyInv, MixInv, OwedInv
  <2> QED BY <2>2, <2>3 DEF CopyInv
<1>4. CASE WritePage
  <2>1. /\ pc = "write" /\ pc' = "write" /\ page <= LastPage /\ page' = page + 1
        /\ UNCHANGED <<text, cfg, source, owed>>
    BY <1>4 DEF WritePage
  <2>2. page \in Pages /\ page + 1 \in 1 .. ConfigPages
    BY <1>0, <2>1, LastPageType, ConfigAssumption DEF TypeOK, Pages
  <2>3. CutInv'
    <3> SUFFICES ASSUME ~spoilt' PROVE CutInv'
      BY DEF CutInv
    <3>1. pages' = Programmed(<<text, page>>) /\ ~spoilt /\ text # Nothing
      BY <1>4 DEF WritePage
    <3>2. text \in Files
      BY <1>0, <3>1 DEF TypeOK, Texts
    <3>3. CutAt(pages', text', page')
      BY <1>0, <2>1, <2>2, <3>1, CutGrows DEF CopyInv, CutInv
    <3>4. page' \in 0 .. ConfigPages
      BY <2>1, <2>2
    <3> QED BY <2>1, <3>2, <3>3, <3>4 DEF CutInv
  <2>4. MixInv' /\ OwedInv'
    BY <2>1 DEF CopyInv, MixInv, OwedInv
  <2> QED BY <2>3, <2>4 DEF CopyInv
<1>5. CASE Written
  <2>1. /\ pc = "write" /\ page > LastPage /\ pc' = "run"
        /\ UNCHANGED <<pages, text, page, cfg, source, spoilt>>
        /\ owed' = IF Copyable(text) /\ ~spoilt THEN text ELSE Unset
    BY <1>5 DEF Written, ram
  <2>2. page = LastPage + 1
    BY <1>0, <2>1, LastPageType DEF TypeInv, TypeOK
  <2>3. CutInv'
    BY <2>1 DEF CopyInv, CutInv, CutAt
  <2>4. MixInv'
    BY <2>1 DEF CopyInv, MixInv
  <2>5. ASSUME owed' # Unset PROVE Copyable(owed') /\ Holds(pages', owed')
    <3>1. owed' = text /\ Copyable(text) /\ ~spoilt /\ text \in Texts
      BY <1>0, <2>1, <2>5 DEF TypeOK
    <3>2. CutAt(pages, text, Length[text] \div PageSize + 1)
      BY <2>1, <2>2, <3>1 DEF CopyInv, CutInv, LastPage
    <3> QED BY <2>1, <3>1, <3>2, CutHolds
  <2>6. OwedInv'
    BY <2>1, <2>5 DEF CopyInv, OwedInv
  <2> QED BY <2>3, <2>4, <2>6 DEF CopyInv
<1>6. CASE Restore
  <2>1. /\ pc' = "run" /\ cfg' \in Parsed(pages) /\ source' = "flash"
        /\ UNCHANGED <<pages, owed, spoilt>>
    BY <1>6 DEF Restore, hist
  <2>2. ~spoilt => cfg' # Mixed
    BY <2>1, ParsedCut DEF CopyInv, CutInv
  <2>3. owed # Unset => cfg' = owed
    <3>1. owed # Unset => owed \in Texts /\ Holds(pages, owed) /\ Copyable(owed)
      BY <1>0 DEF CopyInv, OwedInv, TypeOK, Texts
    <3> QED BY <2>1, <3>1, ParsedText
  <2> QED BY <1>0, <2>1, <2>2, <2>3, CopyKept
<1>7. CASE Swap
  BY <1>7 DEF Swap, ram, hist, CopyInv, CutInv, CutAt, MixInv, OwedInv, Holds
<1>8. CASE Restart
  BY <1>0, <1>8, ConfigAssumption, CopyKept DEF Restart, Reboot, hist
<1>9. CASE Reset
  <2>1. CASE UNCHANGED <<pages, hist>>
    BY <1>0, <1>9, <2>1, ConfigAssumption, CopyKept DEF Reset, Reboot, hist
  <2>2. CASE ~UNCHANGED <<pages, hist>>
    <3>1. Reboot /\ spoilt' /\ (owed' = Unset \/ (owed' = owed /\ pc = "write"))
      BY <1>9, <2>2 DEF Reset
    <3> QED BY <3>1, CopyReboot
  <2> QED BY <2>1, <2>2
<1>10. CASE UNCHANGED vars
  BY <1>10 DEF vars, ram, hist, CopyInv, CutInv, CutAt, MixInv, OwedInv, Holds
<1> QED
  BY <1>1, <1>2, <1>3, <1>4, <1>5, <1>6, <1>7, <1>8, <1>9, <1>10 DEF Next

LEMMA CopyInvariant == Spec => [](TypeInv /\ CopyInv)
  BY ConfigTypeInit, ConfigTypeStep, CopyInit, CopyStep, PTL DEF Spec

\* readConfigFlash gives the text that writeConfigFlash copied last, for every
\* set of texts, page size and length: a brace in the last place excepted.
THEOREM BackupKept == Spec => []BackupServes
<1>1. CopyInv => BackupServes
  BY DEF CopyInv, OwedInv, BackupServes
<1> QED BY <1>1, CopyInvariant, PTL

\* Wherever resets cut the copying of one text after the other, setup() never
\* runs with parts of two.
THEOREM NoMixture == Spec => []NeverMixed
<1>1. CopyInv => NeverMixed
  BY DEF CopyInv, MixInv, NeverMixed
<1> QED BY <1>1, CopyInvariant, PTL

=============================================================================
