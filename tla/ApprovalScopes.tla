--------------------------- MODULE ApprovalScopes ---------------------------
(***************************************************************************)
(* What a decision of the user's on a tool call is good for (approval.py): *)
(* this call, this chat as long as its process lives, or every chat of     *)
(* every process that shares the approvals file.  Each turn has an         *)
(* ApprovalExecutor that reads the file once, at its first call; the       *)
(* session cache of a chat is the sidecar's.                               *)
(*                                                                         *)
(* The event loop of a process does one thing at a time: only a prompt     *)
(* lets others run.  Two processes meet in the file alone.                 *)
(***************************************************************************)
EXTENDS Naturals, FiniteSets, Functions

CONSTANTS
  Chat,       (* chats, each of one process                                 *)
  Process,
  Home,       (* [Chat -> Process]                                          *)
  Category,   (* request.category                                           *)
  Call,       (* tool calls that need an approval                           *)
  MaxBegun    (* bound: turns begun in all                                  *)

ASSUME ApprovalAssumption ==
  Home \in [Chat -> Process] /\ MaxBegun \in Nat /\ "all" \notin Chat

Undecided == "undecided"
Standing  == {Undecided, "allow", "deny"}
Unread    == {}
NoChat    == "nochat"

(* ApprovalKind, and the timeout or a host that cannot be asked.            *)
Kind == [scope : {"once", "session", "always"}, verdict : {"allow", "deny"}]
          \cup {[scope |-> "none", verdict |-> v] : v \in {"abort", "timed_out"}}

VARIABLES
  stored,    (* the executors were given a store (approval.storePath)       *)
  file,      (* the approvals file                                          *)
  session,   (* SessionApprovalCache of each chat                           *)
  durable,   (* _durable of each chat's turn, {what it read}; Unread at     *)
             (* first                                                       *)
  writing,   (* put between its load and its os.replace, for each process   *)
  call,      (* [chat, category, at]                                        *)
  turns,
  (* history *)
  own,       (* calls whose own prompt was answered with an allow           *)
  granted,   (* standing allows the user gave: <<chat or "all", category>>  *)
  lastWord,  (* the last standing decision for all processes                *)
  collided   (* puts of two processes were under way at once                *)

\* What _persist hands to the store.
Put == [call : Call, verdict : {"allow", "deny"}, loaded : [Category -> Standing]]

approvalVars == <<stored, file, session, durable, writing, call, turns, own,
                  granted, lastWord, collided>>

ApprovalTypeOK ==
  /\ stored \in BOOLEAN /\ collided \in BOOLEAN
  /\ file \in [Category -> Standing] /\ lastWord \in [Category -> Standing]
  /\ session \in [Chat -> [Category -> Standing]]
  /\ durable \in [Chat -> SUBSET [Category -> Standing]]
  /\ \A h \in Chat : \A d, e \in durable[h] : d = e
  /\ writing \in [Process -> SUBSET Put]
  /\ \A p \in Process : \A v, w \in writing[p] : v = w
  /\ call \in [Call -> [chat : Chat \cup {NoChat}, category : Category,
       at : {"unmade", "asking", "ran", "denied", "aborted", "gone"}]]
  /\ turns \in 0..MaxBegun
  /\ own \subseteq Call
  /\ granted \subseteq (Chat \cup {"all"}) \X Category

Blank == [c \in Category |-> Undecided]

ApprovalInit ==
  /\ stored \in BOOLEAN
  /\ file = Blank /\ lastWord = Blank
  /\ session = [h \in Chat |-> Blank]
  /\ durable = [h \in Chat |-> Unread]
  /\ writing = [p \in Process |-> {}]
  /\ call \in [Call -> [chat : {NoChat}, category : Category, at : {"unmade"}]]
  /\ turns = 0
  /\ own = {} /\ granted = {} /\ collided = FALSE

Busy(p) == writing[p] # {}
CallsOf(h) == {c \in Call : call[c].chat = h}

\* Variant: one session cache for all chats of the process.
AnySession(h) == {g \in Chat : Home[g] = Home[h]}

\* _approval_session: the cache of the chat.
SessionOf(h) == {h}

\* _durable_decisions: the file as it was when the turn first asked.
Durable(h) ==
  IF ~stored THEN Blank ELSE IF durable[h] = Unread THEN file ELSE CHOOSE d \in durable[h] : TRUE

\* _stored_decision: the durable decision wins over the session's.
StoredDecision(h, t) ==
  IF Durable(h)[t] # Undecided THEN Durable(h)[t]
  ELSE IF \E g \in SessionOf(h) : session[g][t] # Undecided
       THEN session[CHOOSE g \in SessionOf(h) : session[g][t] # Undecided][t]
       ELSE Undecided

\* execute, up to its prompt.
Execute(c, h) ==
  /\ ~Busy(Home[h])
  /\ call[c].at = "unmade"
  /\ LET decision == StoredDecision(h, call[c].category) IN
       call' = [call EXCEPT ![c].chat = h,
                            ![c].at = CASE decision = "allow" -> "ran"
                                        [] decision = "deny"  -> "denied"
                                        [] OTHER              -> "asking"]
  /\ durable' = [durable EXCEPT ![h] = IF stored THEN {Durable(h)} ELSE @]
  /\ UNCHANGED <<stored, file, session, writing, turns, own, granted, lastWord,
                 collided>>

\* Variant: put starts from what this turn has read, not from the file.
LoadedByTheTurn(h) == Durable(h)

\* put reads the file again.
Loaded(h) == file

Outcome(kind) ==
  CASE kind.verdict = "allow" -> "ran"
    [] kind.verdict = "abort" -> "aborted"
    [] OTHER                  -> "denied"

(* A durable decision is a session decision where there is no store.        *)
ForSession(kind) == kind.scope = "session" \/ (kind.scope = "always" /\ ~stored)
ForAll(kind) == kind.scope = "always" /\ stored

\* The prompt is answered: _persist, then the call goes its way.
Answers(c, kind) ==
  LET h == call[c].chat
      t == call[c].category
  IN  /\ call[c].at = "asking" /\ ~Busy(Home[h])
      /\ own' = IF kind.verdict = "allow" THEN own \cup {c} ELSE own
      /\ IF ForAll(kind)
         THEN /\ writing' = [writing EXCEPT ![Home[h]] =
                   {[call |-> c, verdict |-> kind.verdict, loaded |-> Loaded(h)]}]
              /\ collided' = (collided \/ \E p \in Process : Busy(p))
              /\ UNCHANGED call
         ELSE /\ call' = [call EXCEPT ![c].at = Outcome(kind)]
              /\ UNCHANGED <<writing, collided>>
      /\ session' = IF ForSession(kind) THEN [session EXCEPT ![h][t] = kind.verdict]
                    ELSE session
      /\ granted' = IF kind.verdict # "allow" THEN granted
                    ELSE granted \cup (IF ForSession(kind) THEN {<<h, t>>} ELSE {})
                                 \cup (IF ForAll(kind) THEN {<<"all", t>>} ELSE {})
      /\ UNCHANGED <<stored, file, durable, turns, lastWord>>

\* os.replace, and the turn's own copy.
Replaced(p) ==
  \E put \in writing[p] :
    LET c == put.call
        h == call[c].chat
        t == call[c].category
    IN  /\ file' = [put.loaded EXCEPT ![t] = put.verdict]
        /\ lastWord' = [lastWord EXCEPT ![t] = put.verdict]
        /\ durable' = [durable EXCEPT ![h] = {[d EXCEPT ![t] = put.verdict] : d \in @}]
        /\ call' = [call EXCEPT ![c].at = IF put.verdict = "allow" THEN "ran" ELSE "denied"]
        /\ writing' = [writing EXCEPT ![p] = {}]
        /\ UNCHANGED <<stored, session, turns, own, granted, collided>>

\* The turn ends, its open prompts with it; the next one has an executor of
\* its own and the chat's session cache.
NextTurn(h) ==
  /\ turns < MaxBegun /\ ~Busy(Home[h]) /\ CallsOf(h) # {}
  /\ turns' = turns + 1
  /\ durable' = [durable EXCEPT ![h] = Unread]
  /\ call' = [c \in Call |-> IF c \in CallsOf(h) /\ call[c].at = "asking"
                             THEN [call[c] EXCEPT !.at = "gone"] ELSE call[c]]
  /\ UNCHANGED <<stored, file, session, writing, own, granted, lastWord, collided>>

\* The process dies, also in the middle of put: the file is the old or the new
\* one, and what its sessions were told is forgotten.
Dies(p) ==
  LET lost == {h \in Chat : Home[h] = p} IN
  /\ turns < MaxBegun
  /\ turns' = turns + 1
  /\ session' = [h \in Chat |-> IF h \in lost THEN Blank ELSE session[h]]
  /\ durable' = [h \in Chat |-> IF h \in lost THEN Unread ELSE durable[h]]
  /\ writing' = [writing EXCEPT ![p] = {}]
  /\ call' = [c \in Call |-> IF call[c].chat \in lost THEN [call[c] EXCEPT !.at = "gone"]
                             ELSE call[c]]
  /\ granted' = {g \in granted : g[1] \notin lost}
  /\ UNCHANGED <<stored, file, own, lastWord, collided>>

ApprovalNext ==
  \/ \E c \in Call : \/ \E h \in Chat : Execute(c, h)
                     \/ \E kind \in Kind : Answers(c, kind)
  \/ \E p \in Process : Replaced(p) \/ Dies(p)
  \/ \E h \in Chat : NextTurn(h)

ApprovalSpec == ApprovalInit /\ [][ApprovalNext]_approvalVars
-----------------------------------------------------------------------------
(***************************************************************************)
(* Properties                                                              *)
(***************************************************************************)

\* Nothing runs that the user did not let run: by an answer to its own prompt,
\* or by an allow that stands for its category in its chat, in this life of
\* the process, or for everybody.
AllowedByTheUser ==
  \A c \in Call : call[c].at = "ran" =>
    \/ c \in own
    \/ <<call[c].chat, call[c].category>> \in granted
    \/ <<"all", call[c].category>> \in granted

\* The file keeps the last word on every category, whatever the turns of a
\* process had read of it, and over crashes; only two processes that write at
\* once can lose one of the two.
LastWordStands == ~collided => file = lastWord
=============================================================================
