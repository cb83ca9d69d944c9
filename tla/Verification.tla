---------------------------- MODULE Verification -----------------------------
(***************************************************************************)
(* Who may act for the operator, and the mark `verified' of users and chats, *)
(* kept at Telegram and in the database.                                     *)
(* (src/app/services/verification_service.py, rbac_service.py,                *)
(* moderation_service.py and their callers in the bot and the panel.)         *)
(*                                                                         *)
(* Telegram is called first, inside the transaction, then the row is locked   *)
(* and written.  Requests of the bot and of the panel run side by side;       *)
(* each may be killed, and the answer of Telegram may be lost.                *)
(* Definitions Bug_... are for mutation runs only.                            *)
(***************************************************************************)
EXTENDS FiniteSets

CONSTANTS
  Owner,      \* the first of ADMIN_USER_IDS
  Operators,  \* of ADMIN_OPERATOR_USER_IDS
  Others,     \* in neither list
  Accounts, Chats,
  BotRequests, WebRequests

VerificationAssumption ==
  /\ Owner \notin Operators \cup Others /\ Operators \cap Others = {}
  /\ Accounts \cap Chats = {} /\ BotRequests \cap WebRequests = {}

VARIABLES
  moderators,  \* who holds the role MODERATOR in the database
  verified,    \* what Telegram holds of each target
  stored,      \* is_verified ("yes", "no") of each target's row, or Absent
  call,        \* [stage, target, verify] of each request, and (ghost) whether it
               \* was alone at its target
  spoilt       \* ghost: targets with overlapping, killed or unanswered requests,
               \* until one has gone through alone

verification_vars == <<moderators, verified, stored, call, spoilt>>

People == {Owner} \cup Operators \cup Others
Targets == Accounts \cup Chats
Calls == BotRequests \cup WebRequests
Absent == "absent"
NoCall == [stage |-> "idle"]

ALL_MANAGE_SCOPES == {"role:manage", "trust:manage"}
OPERATOR_SCOPES == {"trust:manage"}

resolve_allowlist_role(u) ==
  CASE u = Owner -> ALL_MANAGE_SCOPES
    [] u \in Operators -> OPERATOR_SCOPES
    [] u \in Others -> {}

\* In the bot the roles of the database count as well.
resolve_tg_user_scopes(u) ==
  resolve_allowlist_role(u) \cup (IF u \in moderators THEN OPERATOR_SCOPES ELSE {})

VerificationInit ==
  /\ moderators = {}
  /\ verified = [t \in Targets |-> FALSE]
  /\ stored = [t \in Targets |-> Absent]
  /\ call = [r \in Calls |-> NoCall]
  /\ spoilt = {}

(***************************************************************************)
(* Roles.                                                                  *)
(***************************************************************************)
grant_moderator_role(u) ==
  moderators' = IF resolve_allowlist_role(u) = {} THEN moderators \cup {u} ELSE moderators
revoke_moderator_role(u) ==
  moderators' = IF resolve_allowlist_role(u) = {} THEN moderators \ {u} ELSE moderators

roles_only == UNCHANGED <<verified, stored, call, spoilt>>

mod_role_manage(actor, u) ==
  /\ "role:manage" \in resolve_tg_user_scopes(actor)
  /\ grant_moderator_role(u) \/ revoke_moderator_role(u)
  /\ roles_only

action_grant_moderator(actor, u) ==
  "role:manage" \in resolve_allowlist_role(actor) /\ grant_moderator_role(u) /\ roles_only

action_revoke_moderator(actor, u) ==
  "role:manage" \in resolve_allowlist_role(actor) /\ revoke_moderator_role(u) /\ roles_only

(***************************************************************************)
(* Requests.                                                               *)
(***************************************************************************)
At(t) == {r \in Calls : call[r] # NoCall /\ call[r].target = t}

begin(r, t, verify) ==
  /\ call[r] = NoCall
  /\ call' = [x \in Calls |->
                    CASE x = r -> [stage |-> "call", target |-> t, verify |-> verify,
                                   alone |-> At(t) = {}]
                      [] x \in At(t) -> [call[x] EXCEPT !.alone = FALSE]
                      [] OTHER -> call[x]]
  /\ spoilt' = IF At(t) = {} THEN spoilt ELSE spoilt \cup {t}
  /\ UNCHANGED <<moderators, verified, stored>>

by_bot(actor, r, t, verify) ==
  /\ r \in BotRequests /\ "trust:manage" \in resolve_tg_user_scopes(actor)
  /\ begin(r, t, verify)

by_panel(actor, r, t, verify) ==
  /\ r \in WebRequests /\ "trust:manage" \in resolve_allowlist_role(actor)
  /\ begin(r, t, verify)

mod_verify_user(actor, r, t) == t \in Accounts /\ by_bot(actor, r, t, TRUE)
mod_unverify_user(actor, r, t) == t \in Accounts /\ by_bot(actor, r, t, FALSE)
mod_verify_chat(actor, r, t) == t \in Chats /\ by_bot(actor, r, t, TRUE)
mod_unverify_chat(actor, r, t) == t \in Chats /\ by_bot(actor, r, t, FALSE)
action_verify_user(actor, r, t) == t \in Accounts /\ by_panel(actor, r, t, TRUE)
action_unverify_user(actor, r, t) == t \in Accounts /\ by_panel(actor, r, t, FALSE)

(***************************************************************************)
(* set_user_verification and set_chat_verification.                         *)
(***************************************************************************)
goes_on(r, stage) == call' = [call EXCEPT ![r].stage = stage]
ends(r) == call' = [call EXCEPT ![r] = NoCall]
spoils(r) == spoilt' = spoilt \cup {call[r].target}

Bug_call_telegram(r) ==
  /\ call[r].stage = "call"
  /\ \E done, answered \in BOOLEAN :
       /\ verified' = [verified EXCEPT ![call[r].target] = IF done THEN call[r].verify ELSE @]
       /\ IF answered THEN goes_on(r, "write") ELSE ends(r)
       /\ IF done /\ ~answered THEN spoils(r) ELSE UNCHANGED spoilt
  /\ UNCHANGED <<moderators, stored>>

\* Telegram may refuse, fail, or do it and not be heard.
call_telegram(r) ==
  /\ call[r].stage = "call"
  /\ \E done, answered \in BOOLEAN :
       /\ verified' = [verified EXCEPT ![call[r].target] = IF done THEN call[r].verify ELSE @]
       /\ IF done /\ answered THEN goes_on(r, "write") ELSE ends(r)
       /\ IF done /\ ~answered THEN spoils(r) ELSE UNCHANGED spoilt
  /\ UNCHANGED <<moderators, stored>>

Holder(t) == {r \in At(t) : call[r].stage \in {"created", "loaded"}}

\* The row is locked, or inserted; one more insert waits for the first.
_load_or_create_verification(r) ==
  LET t == call[r].target IN
  /\ call[r].stage = "write"
  /\ IF Holder(t) = {}
       THEN goes_on(r, IF stored[t] = Absent THEN "created" ELSE "loaded")
       ELSE stored[t] = Absent /\ goes_on(r, "waits")
  /\ UNCHANGED <<moderators, verified, stored, spoilt>>

\* The first insert has been committed: IntegrityError; or has been undone.
insert_goes_on(r) ==
  LET t == call[r].target IN
  /\ call[r].stage = "waits" /\ Holder(t) = {}
  /\ IF stored[t] # Absent THEN ends(r) ELSE goes_on(r, "created")
  /\ UNCHANGED <<moderators, verified, stored, spoilt>>

commit_verification(r) ==
  /\ call[r].stage \in {"created", "loaded"}
  /\ stored' = [stored EXCEPT ![call[r].target] = IF call[r].verify THEN "yes" ELSE "no"]
  /\ ends(r)
  /\ spoilt' = IF call[r].alone THEN spoilt \ {call[r].target} ELSE spoilt
  /\ UNCHANGED <<moderators, verified>>

killed(r) ==
  /\ call[r] # NoCall
  /\ ends(r) /\ spoils(r)
  /\ UNCHANGED <<moderators, verified, stored>>

VerificationNext ==
  \/ \E a \in People, u \in People : \/ mod_role_manage(a, u)
                                     \/ action_grant_moderator(a, u)
                                     \/ action_revoke_moderator(a, u)
  \/ \E a \in People, r \in Calls, t \in Targets :
       \/ mod_verify_user(a, r, t) \/ mod_unverify_user(a, r, t)
       \/ mod_verify_chat(a, r, t) \/ mod_unverify_chat(a, r, t)
       \/ action_verify_user(a, r, t) \/ action_unverify_user(a, r, t)
  \/ \E r \in Calls :
       \/ call_telegram(r) \/ _load_or_create_verification(r) \/ insert_goes_on(r)
       \/ commit_verification(r) \/ killed(r)

VerificationSpec == VerificationInit /\ [][VerificationNext]_verification_vars

(***************************************************************************)
(* Properties.                                                             *)
(***************************************************************************)
(* The mark that lowers a seller's risk is the mark Telegram shows: with no  *)
(* request at work the row says verified exactly when Telegram does, also     *)
(* after refusals and failures.  Two requests at once, a kill, or an answer   *)
(* that is lost may leave them apart, and nothing ever compares them; the     *)
(* next request that goes through alone brings them together.                *)
VerificationAgrees ==
  \A t \in Targets \ spoilt : At(t) = {} => (verified[t] <=> stored[t] = "yes")
=============================================================================
