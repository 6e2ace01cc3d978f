---------------------------- MODULE CycleLedger -----------------------------
(***************************************************************************)
(* What the CPU market promises, without its loops: in every session       *)
(* cycles are endowed, then traded against money one for one, then shared  *)
(* out for free to holders that are out of money, then published as        *)
(* quotas.  From the trade on, no more cycles are held than there are,     *)
(* up to the rounding of the free shares; a session whose endowments       *)
(* exceed the supply is cancelled and publishes nothing.                   *)
(***************************************************************************)
EXTENDS Integers, FiniteSets

CONSTANTS Holder, Owner, OwnerOf, Supply,
          Slack        \* cycles that rounding may create, times four

VARIABLES phase, held, wanted, account, quota
vars == <<phase, held, wanted, account, quota>>

Sum(f) == Cardinality(UNION {{h} \X (1..f[h]) : h \in Holder})

Init ==
  /\ phase = "closed"
  /\ held = [h \in Holder |-> 0]
  /\ wanted = [h \in Holder |-> 0]
  /\ account = [o \in Owner |-> 0]
  /\ quota = [h \in Holder |-> 0]

Open ==
  /\ phase = "closed" /\ phase' = "endow"
  /\ held' = [h \in Holder |-> 0]
  /\ wanted' = [h \in Holder |-> 0]
  /\ UNCHANGED <<account, quota>>

Forgive ==
  /\ phase = "closed"
  /\ account' = [o \in Owner |-> 0]
  /\ UNCHANGED <<phase, held, wanted, quota>>

\* Only the entry of h may change.
Only(h, f) == f' = [f EXCEPT ![h] = f'[h]]
Moved(h) == held'[h] - held[h]

\* A holder either wants more than its endowment or is paid for what it leaves.
Endow(h) ==
  /\ phase = "endow"
  /\ held[h] = 0 /\ Only(h, held) /\ Moved(h) >= 0
  /\ \/ Only(h, wanted) /\ wanted'[h] > 0 /\ UNCHANGED account
     \/ /\ Only(OwnerOf[h], account) /\ account'[OwnerOf[h]] >= account[OwnerOf[h]]
        /\ UNCHANGED wanted
  /\ UNCHANGED <<phase, quota>>

Cancel ==
  /\ phase = "endow" /\ Sum(held) > Supply
  /\ phase' = "closed"
  /\ UNCHANGED <<held, wanted, account, quota>>

Advance ==
  /\ \/ phase = "endow" /\ Sum(held) <= Supply /\ phase' = "trade"
     \/ phase = "trade" /\ phase' \in {"share", "publish"}
     \/ phase = "share" /\ phase' = "publish"
     \/ phase = "publish" /\ phase' = "closed" /\ \A h \in Holder : quota[h] <= held[h]
  /\ UNCHANGED <<held, wanted, account, quota>>

Trade(h) ==
  /\ phase = "trade"
  /\ Only(h, held) /\ Moved(h) > 0 /\ Sum(held') <= Supply
  /\ wanted' = [wanted EXCEPT ![h] = @ - Moved(h)] /\ wanted'[h] >= 0
  /\ account' = [account EXCEPT ![OwnerOf[h]] = @ - Moved(h)]
  /\ account'[OwnerOf[h]] >= 0
  /\ UNCHANGED <<phase, quota>>

\* Free cycles: first for what is wanted and cannot be paid, then for all.
Grant(h) ==
  /\ phase = "share" /\ account[OwnerOf[h]] = 0
  /\ Only(h, held) /\ Moved(h) > 0 /\ 4 * (Sum(held') - Supply) <= Slack
  /\ wanted' = [wanted EXCEPT ![h] = @ - Moved(h)] /\ wanted'[h] >= 0
  /\ UNCHANGED <<phase, account, quota>>

Gift(h) ==
  /\ phase = "share"
  /\ Only(h, held) /\ Moved(h) > 0 /\ Sum(held') <= Supply
  /\ UNCHANGED <<phase, wanted, account, quota>>

Publish(h) ==
  /\ phase = "publish"
  /\ Only(h, quota) /\ quota'[h] <= held[h]
  /\ UNCHANGED <<phase, held, wanted, account>>

Next ==
  \/ Open \/ Forgive \/ Cancel \/ Advance
  \/ \E h \in Holder : Endow(h) \/ Trade(h) \/ Grant(h) \/ Gift(h) \/ Publish(h)

Spec == Init /\ [][Next]_vars
=============================================================================
