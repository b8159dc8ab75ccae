----------------------------- MODULE HolderGate -----------------------------
(***************************************************************************)
(* The holder gate (lp_gate.py): a wallet may use a feature when it holds  *)
(* enough of the policy's token.  Balances are read from a node and cached *)
(* for GateTtl; while no fresh balance can be had, a wallet that last      *)
(* qualified under the same policy keeps the feature for GateGrace.        *)
(*                                                                         *)
(* One wallet and one feature: nothing in the code relates two wallets or  *)
(* two features beyond bounds on the caches.  Threads of the server        *)
(* evaluate entitlement concurrently; the policy is replaced by the        *)
(* server's own handler or by the command line tool, another process that  *)
(* shares only the database.  The two steps of a sign-in are here as well. *)
(***************************************************************************)
EXTENDS Naturals, FiniteSets, FiniteSetsExt, Absent

CONSTANTS
  GateCalls,       \* server threads that evaluate an entitlement
  GateTokens,      \* the tokens a policy may name
  MaxBalance,      \* balances and thresholds are 0..MaxBalance, 1..MaxBalance
  GateTtl,         \* ORACLE_TTL_S
  GateGrace,       \* a policy's grace_s
  WriteStep,       \* QUALIFIED_WRITE_STEP_S
  PolicyEvery,     \* how long policy() serves the policy it read
  Policies,        \* the policies the owner signs: [version, token, need]
  StoredPolicies,  \* the rows the database holds when the server starts
  MaxGateTime, MaxEvaluations, MaxTransfers,
  Nonces, SignIns  \* issued nonces; handlers of POST sign-in

ASSUME GateAssumption ==
  /\ GateTtl \in Nat \ {0} /\ GateGrace \in Nat
  /\ WriteStep \in Nat /\ PolicyEvery \in Nat \ {0} /\ MaxBalance \in Nat
  /\ NULL \notin Nat /\ NULL \notin Nonces
  /\ StoredPolicies \subseteq Policies
  /\ \A p, q \in StoredPolicies : p.version = q.version => p = q  \* its key
  /\ Policies \subseteq [version: Nat \ {0}, token: GateTokens, need: 1..MaxBalance]

VARIABLES
  gateTime,     \* the clock
  policyTable,  \* rows of the policy table, one per version
  gatePolicy,   \* [policy, readAt]: the server's copy
  applying,     \* a policy past the version check, not stored yet, or NULL
  balances,     \* token -> the wallet's balance on chain
  lastHeld,     \* history: token -> amount -> last instant at least that was held
  holding,      \* _Oracle._cache of the wallet: NULL or [amount, at]
  fetching,     \* the call that leads the balance read, or NULL
  anchor,       \* the wallet's row of "qualified": NULL or [at, version]
  calls,        \* the entitlement evaluations
  evaluated, transfers, \* how many evaluations began, and balance changes (bounded)
  crossed,      \* history: the token changed under a running evaluation
  nonces,       \* nonce -> "unissued", "live" or "gone"
  signIns,      \* handler -> NULL or the nonce it found live
  sessions      \* nonce -> sessions minted with it

gateVars == <<gateTime, policyTable, gatePolicy, applying, balances, lastHeld,
              holding, fetching, anchor, calls, evaluated, transfers, crossed,
              nonces, signIns, sessions>>

Unset == [version |-> 0, token |-> NULL, need |-> 0]

IdleCall == [pc |-> "idle", policy |-> Unset, start |-> 0, at |-> 0,
             found |-> NULL, seen |-> NULL, granted |-> "no"]

(* What SELECT ... ORDER BY version DESC LIMIT 1 returns, if there is a row. *)
NewestPolicy ==
  LET newest == {p \in policyTable : \A q \in policyTable : q.version <= p.version}
  IN  IF newest = {} THEN Unset ELSE CHOOSE p \in newest : TRUE

GateInit ==
  /\ gateTime = 0 /\ policyTable = StoredPolicies
  /\ gatePolicy = [policy |-> NewestPolicy, readAt |-> 0]
  /\ applying = NULL
  /\ balances \in [GateTokens -> {0, MaxBalance}]
  /\ lastHeld = [t \in GateTokens |-> [a \in 1..MaxBalance |->
                   IF a <= balances[t] THEN 0 ELSE NULL]]
  /\ evaluated = 0 /\ transfers = 0
  /\ holding = NULL /\ fetching = NULL /\ anchor = NULL
  /\ calls = [c \in GateCalls |-> IdleCall]
  /\ crossed = FALSE
  /\ nonces = [n \in Nonces |-> "unissued"]
  /\ signIns = [h \in SignIns |-> NULL]
  /\ sessions = [n \in Nonces |-> 0]

signVars == <<nonces, signIns, sessions>>

boundVars == <<evaluated, transfers>>

-----------------------------------------------------------------------------
(* The chain and the clock. *)

GateTick ==
  /\ gateTime < MaxGateTime
  /\ gateTime' = gateTime + 1
  /\ lastHeld' = [t \in GateTokens |-> [a \in 1..MaxBalance |->
                    IF a <= balances[t] THEN gateTime + 1 ELSE lastHeld[t][a]]]
  /\ UNCHANGED <<policyTable, gatePolicy, applying, balances, holding, fetching,
                 anchor, calls, boundVars, crossed, signVars>>

BalanceMoves(t, amount) ==
  /\ amount # balances[t] /\ transfers < MaxTransfers
  /\ transfers' = transfers + 1
  /\ balances' = [balances EXCEPT ![t] = amount]
  /\ lastHeld' = [lastHeld EXCEPT ![t] = [a \in 1..MaxBalance |->
                    IF a <= amount THEN gateTime ELSE @[a]]]
  /\ UNCHANGED <<gateTime, policyTable, gatePolicy, applying, holding, fetching,
                 anchor, calls, evaluated, crossed, signVars>>

-----------------------------------------------------------------------------
(* The policy. *)

(* Mutant: the oracle keeps what it knows across a change of policy. *)
Mutant_Adopt(p, readAt, forget) ==
  /\ gatePolicy' = [policy |-> p, readAt |-> readAt]
  /\ UNCHANGED holding
  /\ crossed' = (crossed \/ (p.token # gatePolicy.policy.token
                             /\ \E c \in GateCalls : calls[c].pc \notin {"idle", "done"}))

(* The server adopts p: the oracle forgets when told to, and an evaluation *)
(* that is under way keeps the policy it read.                             *)
Adopt(p, readAt, forget) ==
  /\ gatePolicy' = [policy |-> p, readAt |-> readAt]
  /\ holding' = IF forget THEN NULL ELSE holding
  /\ crossed' = (crossed \/ (p.token # gatePolicy.policy.token
                             /\ \E c \in GateCalls : calls[c].pc \notin {"idle", "done"}))

PolicyDue == gateTime - gatePolicy.readAt >= PolicyEvery

(* policy(): re-read the table when the copy is PolicyEvery old. *)
ReRead == Adopt(NewestPolicy, gateTime, NewestPolicy.token # gatePolicy.policy.token)

RefreshPolicy ==
  /\ PolicyDue
  /\ ReRead
  /\ UNCHANGED <<gateTime, policyTable, applying, balances, lastHeld, fetching,
                 anchor, calls, boundVars, signVars>>

(* apply_policy up to the version check: the signature is the owner's. *)
CheckPolicy(p) ==
  /\ applying = NULL
  /\ ~PolicyDue
  /\ p.version > gatePolicy.policy.version
  /\ applying' = [policy |-> p, at |-> gateTime]
  /\ UNCHANGED <<gateTime, policyTable, gatePolicy, balances, lastHeld, holding,
                 fetching, anchor, calls, boundVars, crossed, signVars>>

(* The insert and the switch of the server's copy, under one lock; a row *)
(* of the same version makes the insert fail.                            *)
StorePolicy ==
  /\ applying # NULL
  /\ applying' = NULL
  /\ IF \E q \in policyTable : q.version = applying.policy.version
     THEN UNCHANGED <<policyTable, gatePolicy, holding, crossed>>
     ELSE /\ policyTable' = policyTable \cup {applying.policy}
          /\ Adopt(applying.policy, applying.at, TRUE)
  /\ UNCHANGED <<gateTime, balances, lastHeld, fetching, anchor, calls, boundVars, signVars>>

(* lp_gate_cli.py "policy apply": a process of its own, with its own copy. *)
CliPolicy(p) ==
  /\ \A q \in policyTable : p.version > q.version
  /\ policyTable' = policyTable \cup {p}
  /\ UNCHANGED <<gateTime, gatePolicy, applying, balances, lastHeld, holding,
                 fetching, anchor, calls, boundVars, crossed, signVars>>

-----------------------------------------------------------------------------
(* Entitlement. *)

(* entitlement reads the policy, then the clock. *)
ReadPolicy(c) ==
  /\ calls[c].pc \in {"idle", "done"}
  /\ ~PolicyDue
  /\ evaluated < MaxEvaluations /\ evaluated' = evaluated + 1
  /\ calls' = [calls EXCEPT ![c] =
       [IdleCall EXCEPT !.pc = IF gatePolicy.policy.token = NULL THEN "done" ELSE "observe",
                        !.policy = gatePolicy.policy, !.start = gateTime]]
  /\ UNCHANGED <<gateTime, policyTable, gatePolicy, applying, balances, lastHeld,
                 holding, fetching, anchor, transfers, crossed, signVars>>

FreshAt(h, t) == h # NULL /\ t < h.at + GateTtl

(* _usable: an older balance serves while the node does not answer. *)
Usable(h, t) == IF h # NULL /\ t <= h.at + GateGrace THEN h ELSE NULL

(* observe: a fresh balance is returned; else one call leads the read. *)
Observe(c) ==
  /\ calls[c].pc = "observe"
  /\ \/ /\ FreshAt(holding, gateTime)
        /\ calls' = [calls EXCEPT ![c].pc = "anchors", ![c].found = holding]
        /\ UNCHANGED fetching
     \/ /\ ~FreshAt(holding, gateTime) /\ fetching = NULL
        /\ fetching' = c
        /\ calls' = [calls EXCEPT ![c].pc = "fetch", ![c].at = gateTime, ![c].found = holding]
     \/ /\ ~FreshAt(holding, gateTime) /\ fetching # NULL
        /\ calls' = [calls EXCEPT ![c].pc = "follow", ![c].at = gateTime]
        /\ UNCHANGED fetching
  /\ UNCHANGED <<gateTime, policyTable, gatePolicy, applying, balances, lastHeld,
                 holding, anchor, boundVars, crossed, signVars>>

(* _fetch: the node answers with the balance of the token that the call's *)
(* policy names; the observation is dated when the call asked.            *)
NodeAnswers(c) ==
  /\ calls[c].pc = "fetch"
  /\ calls' = [calls EXCEPT ![c].pc = "publish",
       ![c].found = [amount |-> balances[calls[c].policy.token], at |-> calls[c].at]]
  /\ UNCHANGED <<gateTime, policyTable, gatePolicy, applying, balances, lastHeld,
                 holding, fetching, anchor, boundVars, crossed, signVars>>

(* The lock is taken again: the answer is cached and the followers woken. *)
PublishHolding(c) ==
  /\ calls[c].pc = "publish"
  /\ holding' = calls[c].found
  /\ fetching' = NULL
  /\ calls' = [calls EXCEPT ![c].pc = "anchors"]
  /\ UNCHANGED <<gateTime, policyTable, gatePolicy, applying, balances, lastHeld,
                 anchor, boundVars, crossed, signVars>>

NodeFails(c) ==
  /\ calls[c].pc = "fetch"
  /\ fetching' = NULL
  /\ calls' = [calls EXCEPT ![c].pc = "anchors",
                            ![c].found = Usable(@, calls[c].at)]
  /\ UNCHANGED <<gateTime, policyTable, gatePolicy, applying, balances, lastHeld,
                 holding, anchor, boundVars, crossed, signVars>>

(* A follower goes on when the leader is done, or after ten seconds. *)
FollowerWakes(c) ==
  /\ calls[c].pc = "follow"
  /\ calls' = [calls EXCEPT ![c].pc = "anchors", ![c].found = Usable(holding, calls[c].at)]
  /\ UNCHANGED <<gateTime, policyTable, gatePolicy, applying, balances, lastHeld,
                 holding, fetching, anchor, boundVars, crossed, signVars>>

(* The wallet's row of "qualified" is read under the lock and used after it. *)
SelectAnchor(c) ==
  /\ calls[c].pc = "anchors"
  /\ calls' = [calls EXCEPT ![c].pc = "settle", ![c].seen = anchor]
  /\ UNCHANGED <<gateTime, policyTable, gatePolicy, applying, balances, lastHeld,
                 holding, fetching, anchor, boundVars, crossed, signVars>>

(* entitle: grace counts only while no fresh balance is known. *)
InGrace(call) ==
  /\ ~FreshAt(call.found, call.start)
  /\ call.seen # NULL
  /\ call.seen.version = call.policy.version
  /\ call.start <= call.seen.at + GateGrace

Qualifies(call) == FreshAt(call.found, call.start) /\ call.found.amount >= call.policy.need

(* The row that a qualified evaluation writes. *)
AnchorOf(call) == [at |-> call.found.at, version |-> call.policy.version]

(* The drop of a wallet seen below the threshold, or the move of its anchor. *)
SettleAnchor(c) ==
  LET call == calls[c]
      kept == IF FreshAt(call.found, call.start) /\ call.found.amount < call.policy.need
              THEN NULL ELSE call.seen
  IN
  /\ call.pc = "settle"
  /\ \/ /\ Qualifies(call)
        /\ anchor' = IF kept = NULL THEN AnchorOf(call)
                     ELSE IF kept.version # call.policy.version
                             \/ call.found.at >= kept.at + WriteStep THEN AnchorOf(call)
                     ELSE anchor
     \/ /\ ~Qualifies(call)
        /\ anchor' = IF call.seen # kept THEN NULL ELSE anchor
  /\ calls' = [calls EXCEPT ![c] = [IdleCall EXCEPT !.pc = "done",
       !.policy = call.policy, !.start = call.start,
       !.granted = IF Qualifies(call) THEN "held"
                      ELSE IF InGrace([call EXCEPT !.seen = kept]) THEN "grace" ELSE "no"]]
  /\ UNCHANGED <<gateTime, policyTable, gatePolicy, applying, balances, lastHeld,
                 holding, fetching, boundVars, crossed, signVars>>

-----------------------------------------------------------------------------
(* Sign-in: the nonce is looked up, the signature verified (a node may be *)
(* asked), then the nonce is taken.                                       *)
oracleVars == <<gateTime, policyTable, gatePolicy, applying, balances, lastHeld,
                holding, fetching, anchor, calls, boundVars, crossed>>

IssueNonce(n) ==
  /\ nonces[n] = "unissued"
  /\ nonces' = [nonces EXCEPT ![n] = "live"]
  /\ UNCHANGED <<oracleVars, signIns, sessions>>

ExpireNonce(n) ==
  /\ nonces[n] = "live"
  /\ nonces' = [nonces EXCEPT ![n] = "gone"]
  /\ UNCHANGED <<oracleVars, signIns, sessions>>

FindNonce(h, n) ==
  /\ signIns[h] = NULL /\ nonces[n] = "live"
  /\ signIns' = [signIns EXCEPT ![h] = n]
  /\ UNCHANGED <<oracleVars, nonces, sessions>>

RefuseSigner(h) ==
  /\ signIns[h] # NULL
  /\ signIns' = [signIns EXCEPT ![h] = NULL]
  /\ UNCHANGED <<oracleVars, nonces, sessions>>

(* The pop finds the nonce still there. *)
TakesNonce(h) == nonces[signIns[h]] = "live"

MintSession(h) ==
  /\ signIns[h] # NULL
  /\ TakesNonce(h)
  /\ nonces' = [nonces EXCEPT ![signIns[h]] = "gone"]
  /\ sessions' = [sessions EXCEPT ![signIns[h]] = @ + 1]
  /\ signIns' = [signIns EXCEPT ![h] = NULL]
  /\ UNCHANGED oracleVars

-----------------------------------------------------------------------------
GateCallNext == \E c \in GateCalls :
  \/ ReadPolicy(c) \/ Observe(c) \/ NodeAnswers(c) \/ PublishHolding(c)
  \/ NodeFails(c) \/ FollowerWakes(c) \/ SelectAnchor(c) \/ SettleAnchor(c)

GatePolicyNext ==
  \/ RefreshPolicy \/ StorePolicy
  \/ \E p \in Policies : CheckPolicy(p) \/ CliPolicy(p)

GateEnvNext == GateTick \/ \E t \in GateTokens, a \in 0..MaxBalance : BalanceMoves(t, a)

SignInNext ==
  \/ \E n \in Nonces : IssueNonce(n) \/ ExpireNonce(n)
  \/ \E h \in SignIns : RefuseSigner(h) \/ MintSession(h) \/ \E n \in Nonces : FindNonce(h, n)

GateNext == GateCallNext \/ GatePolicyNext \/ GateEnvNext

GateSpec == GateInit /\ [][GateNext \/ SignInNext]_gateVars

-----------------------------------------------------------------------------
(* A feature is granted only to a wallet that really held the threshold of *)
(* the granting policy's token: within GateTtl of the evaluation when it   *)
(* is granted on a balance, within GateGrace when it is granted in grace.  *)
(* The exception the code has: when the token was replaced under a running *)
(* evaluation, the balance may be another token's, because a read that was *)
(* in flight fills the cache that apply_policy has just cleared.           *)
GrantBacked == \A c \in GateCalls :
  LET call == calls[c]
      window == IF call.granted = "held" THEN GateTtl ELSE GateGrace
      tokens == IF crossed THEN GateTokens ELSE {call.policy.token}
  IN  call.pc = "done" /\ call.granted # "no" =>
        \E t \in tokens : /\ lastHeld[t][call.policy.need] # NULL
                          /\ lastHeld[t][call.policy.need] + window >= call.start

(* A nonce mints at most one session, however many sign-ins carry it at once. *)
NonceMintsOnce == \A n \in Nonces : sessions[n] <= 1

(* Access is backed: every granted feature by a balance that was there, and *)
(* every session by a nonce nobody else used.                               *)
AccessBacked == GrantBacked /\ NonceMintsOnce
=============================================================================
