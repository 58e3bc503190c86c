--------------------------- MODULE LoginThrottle ---------------------------
(***************************************************************************)
(* The counters of failed logins of one user name from one address         *)
(* (http/admin-routes.ts: getLoginLockState, recordLoginFailure,           *)
(* clearLoginFailures).  Each failure counts under three keys, one after   *)
(* the other, in one transaction.                                          *)
(***************************************************************************)
EXTENDS Integers, FiniteSets

CONSTANTS
  Logins,      \* login requests of the user name from the address at the same time
  Threshold,   \* failures that each scope allows: 8, 5 and 3 in the code
  MaxFailures  \* bound: failures ever recorded

VARIABLES
  row,       \* admin_login_throttle by scope: failure_count (0: no row), and whether it locks
  advisory,  \* who holds the advisory lock of a scope's key
  login,     \* where a login is; read: the count it has read under the lock
  pending,   \* counts that a transaction has written and not committed
  failures   \* failures committed since the row was last cleared, and in all

throttleVars == <<row, advisory, login, pending, failures>>

Scope  == <<"ip", "account", "ip_account">>
Scopes == {Scope[i] : i \in 1..3}
NoRow  == [count |-> 0, locked |-> FALSE]
Out    == [pc |-> "idle", at |-> 1, read |-> 0]

Init ==
  /\ row = [k \in Scopes |-> NoRow]
  /\ advisory = [k \in Scopes |-> {}]
  /\ login = [l \in Logins |-> Out]
  /\ pending = [l \in Logins |-> [k \in Scopes |-> 0]]
  /\ failures = [since |-> [k \in Scopes |-> 0], all |-> 0]

\* a row that a transaction has found under its lock, or written, is its own until it commits
Holds(l, k) == pending[l][k] > 0 \/ (login[l].pc = "write" /\ Scope[login[l].at] = k /\ login[l].read > 0)
RowFree(l, k) == \A m \in Logins \ {l} : ~Holds(m, k)

\* getLoginLockState
Begin(l) ==
  /\ login[l] = Out /\ failures.all < MaxFailures
  /\ \A k \in Scopes : ~row[k].locked
  /\ login' = [login EXCEPT ![l].pc = "password"]
  /\ UNCHANGED <<row, advisory, pending, failures>>

\* clearLoginFailures after a right password: the count of the address stays.  It waits for rows
\* that are held; two that wait for each other are for the database to part
Cleared == Scopes \ {"ip"}

Succeed(l) ==
  /\ login[l].pc = "password" /\ \A k \in Cleared : RowFree(l, k)
  /\ row' = [k \in Scopes |-> IF k \in Cleared THEN NoRow ELSE row[k]]
  /\ failures' = [failures EXCEPT !.since = [k \in Scopes |-> IF k = "ip" THEN @[k] ELSE 0]]
  /\ login' = [login EXCEPT ![l] = Out]
  /\ UNCHANGED <<advisory, pending>>

\* a transaction begins to count a failure
Fail(l) ==
  /\ login[l].pc = "password" /\ failures.all < MaxFailures
  /\ login' = [login EXCEPT ![l].pc = "lock"]
  /\ failures' = [failures EXCEPT !.all = @ + 1]
  /\ UNCHANGED <<row, advisory, pending>>

LockFree_Ignored(k) == TRUE
LockFree(k) == advisory[k] = {}

\* the advisory lock of the next key, and the count under it
Read(l) ==
  LET k == Scope[login[l].at] IN
  /\ login[l].pc = "lock" /\ LockFree(k) /\ RowFree(l, k)
  /\ advisory' = [advisory EXCEPT ![k] = @ \union {l}]
  /\ login' = [login EXCEPT ![l].pc = "write", ![l].read = row[k].count]
  /\ UNCHANGED <<row, pending, failures>>

Write(l) ==
  LET k == Scope[login[l].at] IN
  /\ login[l].pc = "write" /\ RowFree(l, k)
  /\ pending' = [pending EXCEPT ![l][k] = login[l].read + 1]
  /\ login' = [login EXCEPT ![l] =
       IF @.at = 3 THEN [@ EXCEPT !.pc = "commit"] ELSE [@ EXCEPT !.pc = "lock", !.at = login[l].at + 1, !.read = 0]]
  /\ UNCHANGED <<row, advisory, failures>>

Locks(k, count) == count > Threshold[k]

\* the commit gives the locks back
Commit(l) ==
  /\ login[l].pc = "commit"
  /\ row' = [k \in Scopes |-> [count |-> pending[l][k], locked |-> Locks(k, pending[l][k])]]
  /\ failures' = [failures EXCEPT !.since = [k \in Scopes |-> @[k] + 1]]
  /\ advisory' = [k \in Scopes |-> advisory[k] \ {l}]
  /\ pending' = [pending EXCEPT ![l] = [k \in Scopes |-> 0]]
  /\ login' = [login EXCEPT ![l] = Out]

\* locked_until passes
LockPasses(k) ==
  /\ row[k].locked
  /\ row' = [row EXCEPT ![k].locked = FALSE]
  /\ UNCHANGED <<advisory, login, pending, failures>>

\* fifteen minutes without a failure: the next one counts as the first
WindowPasses(k) ==
  /\ row[k].count > 0 /\ \A l \in Logins : login[l].pc \in {"idle", "password"}
  /\ row' = [row EXCEPT ![k] = NoRow]
  /\ failures' = [failures EXCEPT !.since[k] = 0]
  /\ UNCHANGED <<advisory, login, pending>>

Next ==
  \/ \E l \in Logins : Begin(l) \/ Succeed(l) \/ Fail(l) \/ Read(l) \/ Write(l) \/ Commit(l)
  \/ \E k \in Scopes : LockPasses(k) \/ WindowPasses(k)

Spec == Init /\ [][Next]_throttleVars

-----------------------------------------------------------------------------
\* http/admin-security-db.test.ts:23: failures at the same time are serialized; each is counted
\* under each of its keys, also when the row is new, and when a success clears the others.
FailuresAreCounted == \A k \in Scopes : row[k].count = failures.since[k]
=============================================================================
