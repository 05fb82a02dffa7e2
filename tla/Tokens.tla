------------------------------- MODULE Tokens -------------------------------
(***************************************************************************)
(* One access token of the AI self-service API: its creation, the editing  *)
(* of its permissions under an optimistic lock, its revocation, and the    *)
(* tokenAuth pipeline that calls with it go through.                       *)
(*                                                                         *)
(* A request whose client hangs up has its context cancelled: every later  *)
(* statement of its handler fails, and the handler runs on.                *)
(*                                                                         *)
(* A definition right before the one it alters is that definition with a   *)
(* plausible mistake in it and is not part of TokensNext.                  *)
(***************************************************************************)
EXTENDS Naturals, Sequences, FiniteSets

CONSTANTS
    Editor,      \* administrators who edit the permissions
    Caller,      \* requests that present the token, one each
    Permission,  \* resource/action pairs of the catalogue
    Needed,      \* the one the called route asks for
    MaxRevision  \* bound: values of permission_version

ASSUME TokensConstants ==
    /\ Needed \in Permission
    /\ MaxRevision \in Nat \ {0}

Outcome == {"success", "denied", "failure"}
Grants == SUBSET Permission

TokenRow == [state : {"none", "valid", "expired", "revoked"}, grants : Grants, version : 0..MaxRevision]

(* What an editor saw in its last GET, what UpdatePermissions read, and    *)
(* what it is to write.                                                    *)
EditorRecord == [step : {"idle", "seen", "checked", "written"}, saw : Grants, version : 0..MaxRevision,
                 before : Grants, new : Grants]

(* The step of a call; its principal's grants; the rows it is to write;    *)
(* whether it updates the last use; whether its client is still there.     *)
CallerRecord == [step : {"new", "resolved", "authorize", "handler", "usage", "touch", "ended", "refused"},
                 grants : Grants, rows : Seq(Outcome), touch : BOOLEAN, connected : BOOLEAN]

VARIABLES
    token,     \* the row of api_access_token
    editor,
    caller,
    usage,     \* the rows of api_token_usage_log of each call
    handled    \* history: the calls whose handler ran to its end

tokensVars == <<token, editor, caller, usage, handled>>

TokensTypeOK ==
    /\ token \in TokenRow
    /\ editor \in [Editor -> EditorRecord]
    /\ caller \in [Caller -> CallerRecord]
    /\ usage \in [Caller -> Seq(Outcome)]
    /\ handled \subseteq Caller

IdleEditor == [step |-> "idle", saw |-> {}, version |-> 0, before |-> {}, new |-> {}]
NewCall == [step |-> "new", grants |-> {}, rows |-> <<>>, touch |-> FALSE, connected |-> TRUE]

TokensInit ==
    /\ token = [state |-> "none", grants |-> {}, version |-> 0]
    /\ editor = [e \in Editor |-> IdleEditor]
    /\ caller = [c \in Caller |-> NewCall]
    /\ usage = [c \in Caller |-> <<>>]
    /\ handled = {}

-----------------------------------------------------------------------------
(* A new token has no permission.                                          *)
CreateToken ==
    /\ token.state = "none"
    /\ token' = [state |-> "valid", grants |-> {}, version |-> 1]
    /\ UNCHANGED <<editor, caller, usage, handled>>

TokenExpires ==
    /\ token.state = "valid"
    /\ token' = [token EXCEPT !.state = "expired"]
    /\ UNCHANGED <<editor, caller, usage, handled>>

(* The token's part of RevokeAccessTokenAndLeases.                         *)
RevokeToken ==
    /\ token.state \in {"valid", "expired"}
    /\ token' = [token EXCEPT !.state = "revoked"]
    /\ UNCHANGED <<editor, caller, usage, handled>>

-----------------------------------------------------------------------------
(* GET of the token: the editor sees the permissions and their revision.   *)
GetToken(e) ==
    /\ editor[e].step \in {"idle", "seen"}
    /\ token.state # "none"
    /\ editor' = [editor EXCEPT ![e] = [IdleEditor EXCEPT !.step = "seen", !.saw = token.grants,
                                                          !.version = token.version]]
    /\ UNCHANGED <<token, caller, usage, handled>>

(* UpdatePermissions reads the token and refuses one that has ended ...    *)
UpdatePermissions(e, new) ==
    /\ editor[e].step = "seen"
    /\ editor' = [editor EXCEPT ![e] = IF token.state = "valid"
                                       THEN [@ EXCEPT !.step = "checked", !.before = token.grants, !.new = new]
                                       ELSE IdleEditor]
    /\ UNCHANGED <<token, caller, usage, handled>>

(* ... the conditional UPDATE bumps the revision ...                       *)
MatchesAny(e) == token.state = "valid"
Matches(e) == token.state = "valid" /\ token.version = editor[e].version

UpdateAccessTokenPermissions(e) ==
    /\ editor[e].step = "checked"
    /\ \/ /\ Matches(e)
          /\ token.version < MaxRevision
          /\ token' = [token EXCEPT !.grants = editor[e].new, !.version = @ + 1]
          /\ editor' = [editor EXCEPT ![e].step = "written"]
       \/ /\ ~Matches(e)
          /\ editor' = [editor EXCEPT ![e] = IdleEditor]
          /\ UNCHANGED token
    /\ UNCHANGED <<caller, usage, handled>>

(* ... and the row is read again for the answer and the audit.             *)
AnswerUpdate(e) ==
    /\ editor[e].step = "written"
    /\ editor' = [editor EXCEPT ![e] = [IdleEditor EXCEPT !.step = "seen", !.saw = token.grants,
                                                          !.version = token.version]]
    /\ UNCHANGED <<token, caller, usage, handled>>

(* The editor's client hangs up between two statements.                    *)
EditorGone(e) ==
    /\ editor[e].step \in {"checked", "written"}
    /\ editor' = [editor EXCEPT ![e] = IdleEditor]
    /\ UNCHANGED <<token, caller, usage, handled>>

-----------------------------------------------------------------------------
(* tokenAuthWith.                                                          *)

Ending(c, rows, touch) ==
    caller' = [caller EXCEPT ![c].step = "usage", ![c].rows = rows, ![c].touch = touch]

(* Resolve: an ended token is recognized, and the principal of a valid one *)
(* has its permissions as they are now.  A failed statement refuses the    *)
(* request and recognizes nothing.                                         *)
Resolve(c) ==
    /\ caller[c].step = "new"
    /\ token.state # "none"
    /\ CASE ~caller[c].connected -> caller' = [caller EXCEPT ![c].step = "refused"]
         [] caller[c].connected /\ token.state = "valid" ->
              caller' = [caller EXCEPT ![c].step = "resolved", ![c].grants = token.grants]
         [] OTHER -> Ending(c, <<"denied">>, FALSE)
    /\ UNCHANGED <<token, editor, usage, handled>>

(* notificationRateHook: over the limit, it records the denied call itself.*)
Hook(c) ==
    /\ caller[c].step = "resolved"
    /\ \/ caller' = [caller EXCEPT ![c].step = "authorize"]
       \/ Ending(c, <<"denied">>, TRUE)
    /\ UNCHANGED <<token, editor, usage, handled>>

Authorize(c) ==
    /\ caller[c].step = "authorize"
    /\ IF Needed \in caller[c].grants
       THEN caller' = [caller EXCEPT ![c].step = "handler"]
       ELSE Ending(c, <<"denied">>, FALSE)
    /\ UNCHANGED <<token, editor, usage, handled>>

(* The handler's outcome, by its status code or forced by /notice; a panic *)
(* is recorded by the deferred function, which checks that nothing was.    *)
RowsAfter(outcome) == <<outcome>>
Handle(c, outcome) ==
    /\ caller[c].step = "handler"
    /\ Ending(c, RowsAfter(outcome), TRUE)
    /\ handled' = handled \cup {c}
    /\ UNCHANGED <<token, editor, usage>>
Panic(c) ==
    /\ caller[c].step = "handler"
    /\ Ending(c, <<"failure">>, FALSE)
    /\ UNCHANGED <<token, editor, usage, handled>>

(* A failed insert is only logged.                                         *)
recordTokenUsage(c) ==
    /\ caller[c].step = "usage"
    /\ usage' = [usage EXCEPT ![c] = IF caller[c].connected THEN @ \o caller[c].rows ELSE @]
    /\ caller' = [caller EXCEPT ![c].step = IF caller[c].touch THEN "touch" ELSE "ended"]
    /\ UNCHANGED <<token, editor, handled>>

(* last_used_at and usage_count, which nothing reads.                      *)
TouchAccessToken(c) ==
    /\ caller[c].step = "touch"
    /\ caller' = [caller EXCEPT ![c].step = "ended"]
    /\ UNCHANGED <<token, editor, usage, handled>>

HangUp(c) ==
    /\ caller[c].connected
    /\ caller[c].step \notin {"ended", "refused"}
    /\ caller' = [caller EXCEPT ![c].connected = FALSE]
    /\ UNCHANGED <<token, editor, usage, handled>>

TokensNext ==
    \/ CreateToken \/ TokenExpires \/ RevokeToken
    \/ \E e \in Editor :
         \/ GetToken(e) \/ UpdateAccessTokenPermissions(e) \/ AnswerUpdate(e) \/ EditorGone(e)
         \/ \E g \in Grants : UpdatePermissions(e, g)
    \/ \E c \in Caller :
         \/ Resolve(c) \/ Hook(c) \/ Authorize(c) \/ Panic(c)
         \/ recordTokenUsage(c) \/ TouchAccessToken(c) \/ HangUp(c)
         \/ \E o \in Outcome : Handle(c, o)

TokensSpec == TokensInit /\ [][TokensNext]_tokensVars

-----------------------------------------------------------------------------
(* The optimistic lock of UpdatePermissions: permissions are only ever     *)
(* replaced by an editor who saw exactly what it replaces, who audits it   *)
(* as such, and while the token is valid.                                  *)
NoLostGrant ==
    (token'.grants # token.grants) =>
        /\ token.state = "valid"
        /\ \E e \in Editor : /\ editor[e].new = token'.grants
                             /\ editor[e].saw = token.grants
                             /\ editor[e].before = token.grants

(* "records a usage log row for every recognized token": a call whose      *)
(* client stays has exactly one row, whichever way it ends, and is a       *)
(* success only if its handler ran.                                        *)
UsageTrail ==
    \A c \in Caller :
        (caller[c].step = "ended" /\ caller[c].connected) =>
            /\ Len(usage[c]) = 1
            /\ usage[c][1] = "success" => c \in handled

(* What is written about a token is what happened to it.                   *)
TokenBooksTrue == [][NoLostGrant /\ UsageTrail']_tokensVars
=============================================================================
