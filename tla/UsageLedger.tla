---------------------------- MODULE UsageLedger ----------------------------
(***************************************************************************)
(* What the traffic database promises its owner, without clocks, processes,*)
(* snapshots, locks or crashes: an account per credential that settles the *)
(* carried traffic interval by interval.  Intervals never overlap, so that *)
(* a byte is billed at most once; an account nobody flagged bills each     *)
(* interval exactly; a closed account is never settled or opened again.    *)
(***************************************************************************)
EXTENDS Integers

CONSTANTS Credential, Direction

VARIABLES
  row,      \* credentials: absent, enabled or revoked
  carried,  \* bytes sing-box carried
  opened,   \* accounts whose first position is known
  settled,  \* the position up to which an account is settled
  billed,   \* bytes the account shows
  excess,   \* bytes billed twice under two identities of one process
  flagged   \* accounts marked as not exact

vars == <<row, carried, opened, settled, billed, excess, flagged>>

Bytes == [Direction -> Nat]
Nothing == [c \in Credential |-> [d \in Direction |-> 0]]

Init ==
  /\ row = [c \in Credential |-> "absent"]
  /\ carried = Nothing
  /\ opened = {}
  /\ settled = Nothing
  /\ billed = Nothing
  /\ excess = Nothing
  /\ flagged = {}

Carry(c, d) ==
  /\ carried' = [carried EXCEPT ![c][d] = @ + 1]
  /\ UNCHANGED <<row, opened, settled, billed, excess, flagged>>

\* Rows are added enabled, and enabled rows are revoked; nothing comes back.
ChangeRows ==
  /\ row' \in [Credential -> {"absent", "enabled", "revoked"}]
  /\ \A c \in Credential :
       \/ row'[c] = row[c]
       \/ row[c] = "absent" /\ row'[c] = "enabled"
       \/ row[c] = "enabled" /\ row'[c] = "revoked"
  /\ UNCHANGED <<carried, opened, settled, billed, excess, flagged>>

\* The next interval of an account ends between its last position and now.
\* What is billed for it never exceeds it, but for the announced excess; the
\* first position of an account bills nothing.
SettleInterval(c, d) ==
  /\ settled'[c][d] <= carried[c][d]
  /\ c \notin opened =>
       billed'[c][d] = billed[c][d] /\ excess'[c][d] = excess[c][d]
  /\ c \in opened =>
       /\ settled[c][d] <= settled'[c][d]
       /\ billed[c][d] <= billed'[c][d]
       /\ excess[c][d] <= excess'[c][d]
       /\ billed'[c][d] - billed[c][d] <=
            (settled'[c][d] - settled[c][d]) + (excess'[c][d] - excess[c][d])
  /\ c \in opened /\ c \notin flagged' =>
       /\ excess'[c][d] = excess[c][d]
       /\ billed'[c][d] - billed[c][d] = settled'[c][d] - settled[c][d]

\* One transaction settles any set of enabled accounts.
Settle(C) ==
  /\ \A c \in C : row[c] = "enabled"
  /\ settled' \in [Credential -> Bytes]
  /\ billed' \in [Credential -> Bytes]
  /\ excess' \in [Credential -> Bytes]
  /\ opened' = opened \cup C
  /\ flagged \subseteq flagged' /\ flagged' \subseteq flagged \cup C
  /\ \A c \in C, d \in Direction : SettleInterval(c, d)
  /\ \A c \in Credential \ C :
       settled'[c] = settled[c] /\ billed'[c] = billed[c] /\ excess'[c] = excess[c]
  /\ UNCHANGED <<row, carried>>

Next ==
  \/ \E c \in Credential, d \in Direction : Carry(c, d)
  \/ ChangeRows
  \/ \E C \in SUBSET Credential : Settle(C)

Spec == Init /\ [][Next]_vars

=============================================================================
