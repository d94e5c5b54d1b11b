-------------------------------- MODULE ApiKeys --------------------------------
(***************************************************************************)
(* The keys of the projects (packages/postgres: api-keys.ts and the trigger *)
(* of migrations.ts).  Operators create, revoke and list keys while the     *)
(* clock moves; what a request does with a key is UploadDelivery's.         *)
(***************************************************************************)
EXTENDS Naturals, FiniteSets, Sequences

CONSTANTS
  PublicIds,   \* numbers, in the order of the ids
  Projects,
  KeyPage,     \* keys on a page of list
  MaxNow,      \* bound: the database's clock
  MaxCalls     \* bound: revocations asked for

ASSUME KeyAssumption == PublicIds \subseteq Nat \ {0} /\ KeyPage \in Nat \ {0} /\ MaxNow \in Nat

VARIABLES
  now,     \* now() of the database
  keys,    \* keys[k]: [made, project, expires, revoked], 0 standing for NULL
  answers, \* answers[k]: how often revoke(k) answered true
  refused, \* revoke was refused by the trigger
  calls,   \* revocations asked for
  keyList  \* an operator's walk of list

keysVars == <<now, keys, answers, refused, calls, keyList>>

NoKey == [made |-> FALSE]

ActiveKey(k) == keys[k].made /\ keys[k].revoked = 0 /\ (keys[k].expires = 0 \/ keys[k].expires > now)

Tick ==
  /\ now < MaxNow /\ now' = now + 1
  /\ UNCHANGED <<keys, answers, refused, calls, keyList>>

\* An expiry that has passed by the database's clock inserts nothing.
CreateKey(k, p, expires) ==
  /\ ~keys[k].made
  /\ expires = 0 \/ expires > now
  /\ keys' = [keys EXCEPT ![k] = [made |-> TRUE, project |-> p, expires |-> expires, revoked |-> 0]]
  /\ UNCHANGED <<now, answers, refused, calls, keyList>>

Revocable(k) == keys[k].made /\ keys[k].revoked = 0

\* qe_project_api_keys_immutable: a revocation never moves.
TriggerRefuses(k) == keys[k].revoked \notin {0, now}

RevokeKey(k) ==
  /\ calls < MaxCalls /\ calls' = calls + 1
  /\ LET updated == Revocable(k) /\ ~TriggerRefuses(k) IN
     /\ keys' = IF updated THEN [keys EXCEPT ![k].revoked = now] ELSE keys
     /\ answers' = [answers EXCEPT ![k] = IF updated THEN @ + 1 ELSE @]
     /\ refused' = (refused \/ (Revocable(k) /\ TriggerRefuses(k)))
  /\ UNCHANGED <<now, keyList>>

--------------------------------------------------------------------------------
\* The first rows of found in the order of the ids, a page of them at most.
FirstRows(page, found) ==
  /\ page \subseteq found /\ \A k \in page, j \in found \ page : k < j
  /\ page = found \/ Cardinality(page) = KeyPage
  /\ Cardinality(page) <= KeyPage

\* Slip: the page continues after the row that did not fit on it.
NextKeyPast(k, page, found) == k \in found \ page /\ \A j \in found \ page : k <= j

NextKey(k, page, found) == k \in page /\ \A j \in page : j <= k

\* One page of the active keys of every project, after the last key of the page before.
ListKeys ==
  /\ keyList.pc = "walking"
  /\ LET found == {k \in PublicIds : ActiveKey(k) /\ k > keyList.after} IN
     \E page \in SUBSET found :
       /\ FirstRows(page, found)
       /\ \/ /\ page = found
             /\ keyList' = [keyList EXCEPT !.pc = "done", !.pages = Append(@, page)]
          \/ /\ page # found
             /\ \E k \in found : /\ NextKey(k, page, found)
                                 /\ keyList' = [keyList EXCEPT !.after = k, !.pages = Append(@, page)]
  /\ UNCHANGED <<now, keys, answers, refused, calls>>

StartListing ==
  /\ keyList.pc \in {"none", "done"}
  /\ keyList' = [pc |-> "walking", after |-> 0, pages |-> <<>>, active |-> {k \in PublicIds : ActiveKey(k)}]
  /\ UNCHANGED <<now, keys, answers, refused, calls>>

KeysInit ==
  /\ now = 1 /\ keys = [k \in PublicIds |-> NoKey]
  /\ answers = [k \in PublicIds |-> 0] /\ refused = FALSE /\ calls = 0
  /\ keyList = [pc |-> "none"]

KeysNext ==
  \/ Tick
  \/ \E k \in PublicIds, p \in Projects, e \in {0, MaxNow} : CreateKey(k, p, e)
  \/ \E k \in PublicIds : RevokeKey(k)
  \/ StartListing \/ ListKeys

KeysSpec == KeysInit /\ [][KeysNext]_keysVars

--------------------------------------------------------------------------------
(* Properties *)

\* A walk of the listing shows every key that was active from its start to its
\* end, once, and in order, although keys are created, revoked and expire
\* between the pages (list: "paging is stable while keys are being issued").
PagesMissNoKey ==
  keyList.pc \in {"walking", "done"} =>
    /\ \A i, j \in DOMAIN keyList.pages : i < j => \A k \in keyList.pages[i], m \in keyList.pages[j] : k < m
    /\ keyList.pc = "done" =>
         \A k \in keyList.active : ActiveKey(k) => \E i \in DOMAIN keyList.pages : k \in keyList.pages[i]

\* However often a key is revoked, one call answers true and none is refused by
\* the trigger that keeps keys immutable: revoking again is a no-op.
RevokedOnce == ~refused /\ \A k \in PublicIds : answers[k] <= 1

\* The keys are accounted for: one revocation each, and a listing of all that
\* stand.
KeysAreAccounted == RevokedOnce /\ PagesMissNoKey
===============================================================================
