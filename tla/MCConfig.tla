------------------------------- MODULE MCConfig -------------------------------
(* Texts of one to three pages, for TLC: "long" and "even" can be copied,     *)
(* "even" ends with its page, "brace" ends with its brace, "bad" is no JSON.  *)
EXTENDS ConfigBackup

MCFiles == {"long", "even", "brace", "bad"}
MCLength == [long |-> 8, even |-> 6, brace |-> 5, bad |-> 2, nothing |-> 0]
MCClose == [long |-> 7, even |-> 4, brace |-> 5, bad |-> 0, nothing |-> 0]

=============================================================================
