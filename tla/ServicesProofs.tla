--------------------------- MODULE ServicesProofs ---------------------------
(***************************************************************************)
(* Proofs about the smaller services of the control plane: access tokens,  *)
(* the command registry, the retention cleanup, administrator logins and   *)
(* the notification limiter.  Each has a specification of its own and      *)
(* shares no state with the others; the last section is about all of them  *)
(* and the executor beside each other, as MCServices composes them.        *)
(***************************************************************************)
EXTENDS MCServices, ExecutorProofs, FiniteSetTheorems, TLAPS

-----------------------------------------------------------------------------
(* Access tokens.                                                          *)

(* A revision has one set of permissions: an editor that holds the         *)
(* token's revision saw, and is to replace, what the token has.            *)
EditorsSaw ==
    \A e \in Editor :
        /\ editor[e].step # "idle" => token.state # "none"
        /\ editor[e].step \in {"seen", "checked"} =>
              /\ editor[e].version <= token.version
              /\ editor[e].version = token.version =>
                    /\ editor[e].saw = token.grants
                    /\ editor[e].step = "checked" => editor[e].before = token.grants

(* A row that tells the truth about a call.                                *)
Truthful(c, booked) == \E o \in Outcome : booked = <<o>> /\ (o = "success" => c \in handled)

CallsRecorded ==
    \A c \in Caller :
        /\ caller[c].step \in {"new", "resolved", "authorize", "handler", "usage"} => usage[c] = <<>>
        /\ caller[c].step = "usage" => Truthful(c, caller[c].rows)
        /\ caller[c].step \in {"touch", "ended"} /\ caller[c].connected => Truthful(c, usage[c])

(* No permission is given before the token is created.                     *)
NothingGranted == token.state = "none" => token.grants = {}

TokensInv == TokensTypeOK /\ NothingGranted /\ EditorsSaw /\ CallsRecorded

(* The records the actions write have their types.                         *)
LEMMA TokenRecords ==
    /\ {} \in Grants /\ {0, 1} \subseteq 0..MaxRevision
    /\ IdleEditor \in EditorRecord /\ NewCall \in CallerRecord
    /\ \A o \in Outcome : <<o>> \in Seq(Outcome)
    /\ <<>> \in Seq(Outcome)
<1>1. {} \in Grants /\ {0, 1} \subseteq 0..MaxRevision
  BY TokensConstants DEF TokensConstants, Grants
<1>2. /\ \A o \in Outcome : <<o>> \in Seq(Outcome)
      /\ <<>> \in Seq(Outcome)
  OBVIOUS
<1>3. IdleEditor \in EditorRecord
  BY <1>1 DEF IdleEditor, EditorRecord
<1>4. NewCall \in CallerRecord
  BY <1>1, <1>2 DEF NewCall, CallerRecord
<1> QED
  BY <1>1, <1>2, <1>3, <1>4

(* There is no token, editor or call at first.                             *)
LEMMA TokensStart == TokensInit => TokensInv
<1> SUFFICES ASSUME TokensInit PROVE TokensInv
  OBVIOUS
<1>1. TokensTypeOK
  BY TokenRecords DEF TokensInit, TokensTypeOK, TokenRow
<1>2. NothingGranted /\ EditorsSaw /\ CallsRecorded
  BY DEF TokensInit, NothingGranted, EditorsSaw, CallsRecorded, IdleEditor, NewCall
<1> QED
  BY <1>1, <1>2 DEF TokensInv

(* Every caller of a step but one keeps what it had.                       *)
LEMMA CallStep ==
    ASSUME TokensInv, UNCHANGED <<token, editor>>, NEW c \in Caller,
           NEW r \in CallerRecord, caller' = [caller EXCEPT ![c] = r],
           NEW u \in Seq(Outcome), usage' = [usage EXCEPT ![c] = u],
           handled' \in {handled, handled \cup {c}},
           r.step \in {"new", "resolved", "authorize", "handler", "usage"} => u = <<>>,
           r.step = "usage" => \E o \in Outcome : r.rows = <<o>> /\ (o = "success" => c \in handled'),
           r.step \in {"touch", "ended"} /\ r.connected =>
               \E o \in Outcome : u = <<o>> /\ (o = "success" => c \in handled')
    PROVE  TokensInv'
<1>1. TokensTypeOK'
  BY DEF TokensInv, TokensTypeOK
<1>2. NothingGranted' /\ EditorsSaw'
  BY DEF TokensInv, NothingGranted, EditorsSaw
<1>3. ASSUME NEW d \in Caller
      PROVE  /\ caller'[d].step \in {"new", "resolved", "authorize", "handler", "usage"} => usage'[d] = <<>>
             /\ caller'[d].step = "usage" => Truthful(d, caller[d].rows)'
             /\ caller'[d].step \in {"touch", "ended"} /\ caller'[d].connected => Truthful(d, usage[d])'
  <2>1. CASE d = c
    <3>1. caller'[d] = r /\ usage'[d] = u
      BY <2>1 DEF TokensInv, TokensTypeOK
    <3> QED
      BY <2>1, <3>1 DEF Truthful
  <2>2. CASE d # c
    <3>1. caller'[d] = caller[d] /\ usage'[d] = usage[d]
      BY <2>2 DEF TokensInv, TokensTypeOK
    <3>2. handled \subseteq handled'
      OBVIOUS
    <3> QED
      BY <3>1, <3>2 DEF TokensInv, CallsRecorded, Truthful
  <2> QED
    BY <2>1, <2>2
<1>4. CallsRecorded'
  BY <1>3 DEF CallsRecorded
<1> QED
  BY <1>1, <1>2, <1>4 DEF TokensInv

(* The step of an editor that leaves the token alone.                      *)
LEMMA EditorStep ==
    ASSUME TokensInv, UNCHANGED <<token, caller, usage, handled>>, NEW e \in Editor,
           NEW r \in EditorRecord, editor' = [editor EXCEPT ![e] = r],
           r.step # "idle" => token.state # "none",
           r.step \in {"seen", "checked"} =>
                /\ r.version <= token.version
                /\ r.version = token.version =>
                      r.saw = token.grants /\ (r.step = "checked" => r.before = token.grants)
    PROVE  TokensInv'
<1>1. TokensTypeOK'
  BY DEF TokensInv, TokensTypeOK
<1>2. NothingGranted' /\ EditorsSaw'
  <2>1. \A d \in Editor : editor'[d] = IF d = e THEN r ELSE editor[d]
    BY DEF TokensInv, TokensTypeOK
  <2> QED
    BY <2>1 DEF TokensInv, NothingGranted, EditorsSaw
<1>3. CallsRecorded'
  BY DEF TokensInv, CallsRecorded, Truthful
<1> QED
  BY <1>1, <1>2, <1>3 DEF TokensInv

(* Every step of a token, of an editor and of a caller keeps them so.      *)
LEMMA TokensKept == TokensInv /\ [TokensNext]_tokensVars => TokensInv'
<1> SUFFICES ASSUME TokensInv, [TokensNext]_tokensVars PROVE TokensInv'
  OBVIOUS
<1> USE TokenRecords
<1>t. TokensTypeOK /\ NothingGranted /\ EditorsSaw /\ CallsRecorded
  BY DEF TokensInv
<1>r. /\ token \in TokenRow /\ token.version \in Nat /\ token.grants \in Grants
      /\ \A e \in Editor : editor[e] \in EditorRecord
      /\ \A c \in Caller : caller[c] \in CallerRecord /\ usage[c] \in Seq(Outcome)
  BY <1>t DEF TokensTypeOK, TokenRow
<1>1. ASSUME CreateToken PROVE TokensInv'
  <2>1. TokensTypeOK'
    BY <1>1, <1>t DEF CreateToken, TokensTypeOK, TokenRow
  <2>2. NothingGranted' /\ EditorsSaw' /\ CallsRecorded'
    BY <1>1, <1>t DEF CreateToken, NothingGranted, EditorsSaw, CallsRecorded, Truthful
  <2> QED
    BY <2>1, <2>2 DEF TokensInv
<1>2. ASSUME TokenExpires \/ RevokeToken PROVE TokensInv'
  <2>1. /\ token'.grants = token.grants /\ token'.version = token.version /\ token'.state # "none"
        /\ token' \in TokenRow /\ UNCHANGED <<editor, caller, usage, handled>>
    BY <1>2, <1>r DEF TokenExpires, RevokeToken, TokenRow
  <2>2. TokensTypeOK'
    BY <1>t, <2>1 DEF TokensTypeOK
  <2>3. NothingGranted' /\ EditorsSaw' /\ CallsRecorded'
    BY <1>t, <2>1 DEF NothingGranted, EditorsSaw, CallsRecorded, Truthful
  <2> QED
    BY <2>2, <2>3 DEF TokensInv
<1>3. ASSUME NEW e \in Editor, GetToken(e) \/ AnswerUpdate(e) PROVE TokensInv'
  <2> DEFINE r == [IdleEditor EXCEPT !.step = "seen", !.saw = token.grants, !.version = token.version]
  <2>1. r \in EditorRecord /\ r.step = "seen" /\ r.saw = token.grants /\ r.version = token.version
    BY <1>r DEF IdleEditor, EditorRecord, TokenRow
  <2>2. editor' = [editor EXCEPT ![e] = r] /\ UNCHANGED <<token, caller, usage, handled>>
    BY <1>3 DEF GetToken, AnswerUpdate
  <2>3. token.state # "none"
    BY <1>3, <1>t DEF GetToken, AnswerUpdate, EditorsSaw
  <2>4. r.version <= token.version
    BY <1>r, <2>1
  <2> HIDE DEF r
  <2> QED
    BY <2>1, <2>2, <2>3, <2>4, EditorStep
<1>4. ASSUME NEW e \in Editor, NEW g \in Grants, UpdatePermissions(e, g) PROVE TokensInv'
  <2>0. PICK q \in EditorRecord : q = editor[e]
    BY <1>r
  <2>1. CASE token.state = "valid"
    <3> DEFINE r == [q EXCEPT !.step = "checked", !.before = token.grants, !.new = g]
    <3>1. /\ r \in EditorRecord /\ r.step = "checked" /\ r.before = token.grants
          /\ r.saw = q.saw /\ r.version = q.version
      BY <1>r DEF EditorRecord
    <3>2. editor' = [editor EXCEPT ![e] = r] /\ UNCHANGED <<token, caller, usage, handled>>
      BY <1>4, <2>0, <2>1 DEF UpdatePermissions
    <3>3. q.version <= token.version /\ (q.version = token.version => q.saw = token.grants)
      BY <1>4, <1>t, <2>0 DEF UpdatePermissions, EditorsSaw
    <3> HIDE DEF r
    <3> QED
      BY <2>1, <3>1, <3>2, <3>3, EditorStep
  <2>2. CASE token.state # "valid"
    <3>1. editor' = [editor EXCEPT ![e] = IdleEditor] /\ UNCHANGED <<token, caller, usage, handled>>
      BY <1>4, <2>2 DEF UpdatePermissions
    <3> QED
      BY <3>1, EditorStep DEF IdleEditor
  <2> QED
    BY <2>1, <2>2
<1>5. ASSUME NEW e \in Editor, EditorGone(e) PROVE TokensInv'
  BY <1>5, EditorStep DEF EditorGone, IdleEditor
<1>6. ASSUME NEW e \in Editor, UpdateAccessTokenPermissions(e) PROVE TokensInv'
  <2>1. CASE ~Matches(e)
    BY <1>6, <2>1, EditorStep DEF UpdateAccessTokenPermissions, IdleEditor
  <2>2. CASE Matches(e)
    <3>0. PICK q \in EditorRecord : q = editor[e]
      BY <1>r
    <3> DEFINE r == [q EXCEPT !.step = "written"]
    <3>1. r \in EditorRecord /\ r.step = "written"
      BY DEF EditorRecord
    <3>2. /\ editor' = [editor EXCEPT ![e] = r] /\ UNCHANGED <<caller, usage, handled>>
          /\ token' = [token EXCEPT !.grants = q.new, !.version = token.version + 1]
          /\ token.version < MaxRevision /\ token.state = "valid"
      BY <1>6, <2>2, <3>0 DEF UpdateAccessTokenPermissions, Matches
    <3>3. token' \in TokenRow /\ token'.version = token.version + 1 /\ token'.state = "valid"
      <4>1. PICK k \in TokenRow : k = token
        BY <1>r
      <4>2. k.version + 1 \in 0..MaxRevision /\ q.new \in Grants
        BY <1>r, <3>2, <4>1, TokensConstants DEF TokensConstants, EditorRecord
      <4>3. token' = [k EXCEPT !.grants = q.new, !.version = k.version + 1]
        BY <3>2, <4>1
      <4> QED
        BY <3>2, <4>1, <4>2, <4>3 DEF TokenRow
    <3> HIDE DEF r
    <3>4. TokensTypeOK'
      BY <1>t, <3>1, <3>2, <3>3 DEF TokensTypeOK
    <3>5. \A d \in Editor : editor'[d] = IF d = e THEN r ELSE editor[d]
      BY <1>t, <3>2 DEF TokensTypeOK
    <3>6. \A d \in Editor : editor[d].version \in Nat
      BY <1>r DEF EditorRecord
    <3>7. NothingGranted' /\ EditorsSaw'
      BY <1>r, <1>t, <3>1, <3>3, <3>5, <3>6 DEF NothingGranted, EditorsSaw
    <3>8. CallsRecorded'
      BY <1>t, <3>2 DEF CallsRecorded, Truthful
    <3> QED
      BY <3>4, <3>7, <3>8 DEF TokensInv
  <2> QED
    BY <2>1, <2>2
<1>7. ASSUME NEW c \in Caller, Resolve(c) PROVE TokensInv'
  <2>0. PICK q \in CallerRecord : q = caller[c] /\ q.step = "new"
    BY <1>7, <1>r DEF Resolve
  <2>1. /\ usage[c] = <<>> /\ usage' = [usage EXCEPT ![c] = <<>>] /\ handled' = handled
        /\ UNCHANGED <<token, editor>>
    BY <1>7, <1>t, <2>0 DEF Resolve, TokensTypeOK, CallsRecorded
  <2>2. PICK r \in CallerRecord :
           /\ caller' = [caller EXCEPT ![c] = r]
           /\ r.step \in {"refused", "resolved", "usage"}
           /\ r.step = "usage" => r.rows = <<"denied">>
    <3>1. CASE ~q.connected
      <4>1. [q EXCEPT !.step = "refused"] \in CallerRecord
        BY DEF CallerRecord
      <4> QED
        BY <1>7, <2>0, <3>1, <4>1 DEF Resolve, CallerRecord
    <3>2. CASE q.connected /\ token.state = "valid"
      <4>1. [q EXCEPT !.step = "resolved", !.grants = token.grants] \in CallerRecord
        BY <1>r DEF CallerRecord
      <4>2. caller' = [caller EXCEPT ![c] = [q EXCEPT !.step = "resolved", !.grants = token.grants]]
        BY <1>7, <2>0, <3>2 DEF Resolve
      <4> QED
        BY <4>1, <4>2 DEF CallerRecord
    <3>3. CASE q.connected /\ token.state # "valid"
      <4>1. [q EXCEPT !.step = "usage", !.rows = <<"denied">>, !.touch = FALSE] \in CallerRecord
        BY DEF CallerRecord, Outcome
      <4>2. caller' = [caller EXCEPT ![c] =
                          [q EXCEPT !.step = "usage", !.rows = <<"denied">>, !.touch = FALSE]]
        BY <1>7, <2>0, <3>3 DEF Resolve, Ending
      <4> QED
        BY <4>1, <4>2 DEF CallerRecord
    <3> QED
      BY <3>1, <3>2, <3>3
  <2>3. r.step = "usage" => \E o \in Outcome : r.rows = <<o>> /\ (o = "success" => c \in handled')
    BY <2>2 DEF Outcome
  <2> QED
    BY <2>1, <2>2, <2>3, CallStep
<1>8. ASSUME NEW c \in Caller, Hook(c) \/ Authorize(c) PROVE TokensInv'
  <2>0. PICK q \in CallerRecord : q = caller[c] /\ q.step \in {"resolved", "authorize"}
    BY <1>8, <1>r DEF Hook, Authorize
  <2>1. /\ usage[c] = <<>> /\ usage' = [usage EXCEPT ![c] = <<>>] /\ handled' = handled
        /\ UNCHANGED <<token, editor>>
    BY <1>8, <1>t, <2>0 DEF Hook, Authorize, TokensTypeOK, CallsRecorded
  <2>2. PICK r \in CallerRecord :
           /\ caller' = [caller EXCEPT ![c] = r]
           /\ r.step \in {"authorize", "handler", "usage"}
           /\ r.step = "usage" => r.rows = <<"denied">>
    <3>1. /\ [q EXCEPT !.step = "authorize"] \in CallerRecord
          /\ [q EXCEPT !.step = "handler"] \in CallerRecord
          /\ \A t \in BOOLEAN :
                [q EXCEPT !.step = "usage", !.rows = <<"denied">>, !.touch = t] \in CallerRecord
      BY DEF CallerRecord, Outcome
    <3>2. \/ caller' = [caller EXCEPT ![c] = [q EXCEPT !.step = "authorize"]]
          \/ caller' = [caller EXCEPT ![c] = [q EXCEPT !.step = "handler"]]
          \/ \E t \in BOOLEAN : caller' = [caller EXCEPT ![c] =
                [q EXCEPT !.step = "usage", !.rows = <<"denied">>, !.touch = t]]
      BY <1>8, <2>0 DEF Hook, Authorize, Ending
    <3>3. CASE caller' = [caller EXCEPT ![c] = [q EXCEPT !.step = "authorize"]]
      BY <3>1, <3>3 DEF CallerRecord
    <3>4. CASE caller' = [caller EXCEPT ![c] = [q EXCEPT !.step = "handler"]]
      BY ZenonT(40), <3>1, <3>4 DEF CallerRecord
    <3>5. ASSUME NEW t \in BOOLEAN, caller' = [caller EXCEPT ![c] =
                    [q EXCEPT !.step = "usage", !.rows = <<"denied">>, !.touch = t]]
          PROVE  \E r \in CallerRecord :
                    /\ caller' = [caller EXCEPT ![c] = r]
                    /\ r.step \in {"authorize", "handler", "usage"}
                    /\ r.step = "usage" => r.rows = <<"denied">>
      BY ZenonT(40), <3>1, <3>5 DEF CallerRecord
    <3> QED
      BY <3>2, <3>3, <3>4, <3>5
  <2>3. r.step = "usage" => \E o \in Outcome : r.rows = <<o>> /\ (o = "success" => c \in handled')
    BY <2>2 DEF Outcome
  <2> QED
    BY <2>1, <2>2, <2>3, CallStep
<1>9. ASSUME NEW c \in Caller, Panic(c) \/ \E o \in Outcome : Handle(c, o) PROVE TokensInv'
  <2>0. PICK q \in CallerRecord : q = caller[c] /\ q.step = "handler"
    BY <1>9, <1>r DEF Panic, Handle
  <2>1. /\ usage[c] = <<>> /\ usage' = [usage EXCEPT ![c] = <<>>]
        /\ UNCHANGED <<token, editor>> /\ handled' \in {handled, handled \cup {c}}
    BY <1>9, <1>t, <2>0 DEF Panic, Handle, TokensTypeOK, CallsRecorded
  <2>2. PICK o \in Outcome, t \in BOOLEAN :
           /\ caller' = [caller EXCEPT ![c] = [q EXCEPT !.step = "usage", !.rows = <<o>>, !.touch = t]]
           /\ o = "success" => c \in handled'
    <3>1. CASE Panic(c)
      BY <2>0, <3>1 DEF Panic, Ending, Outcome
    <3>2. CASE \E o \in Outcome : Handle(c, o)
      BY ZenonT(40), <2>0, <3>2 DEF Handle, Ending, RowsAfter
    <3> QED
      BY <1>9, <3>1, <3>2
  <2> DEFINE r == [q EXCEPT !.step = "usage", !.rows = <<o>>, !.touch = t]
  <2>3. r \in CallerRecord /\ r.step = "usage" /\ r.rows = <<o>>
    BY DEF CallerRecord
  <2>4. caller' = [caller EXCEPT ![c] = r]
    BY <2>2
  <2> HIDE DEF r
  <2> QED
    BY <2>1, <2>2, <2>3, <2>4, CallStep
<1>10. ASSUME NEW c \in Caller, recordTokenUsage(c) PROVE TokensInv'
  <2>0. PICK q \in CallerRecord : q = caller[c] /\ q.step = "usage"
    BY <1>10, <1>r DEF recordTokenUsage
  <2>1. PICK o \in Outcome : q.rows = <<o>> /\ (o = "success" => c \in handled)
    BY <1>t, <2>0 DEF CallsRecorded, Truthful
  <2>2. usage[c] = <<>>
    BY <1>t, <2>0 DEF CallsRecorded
  <2>3. usage[c] \o q.rows = <<o>>
    BY <2>1, <2>2
  <2> DEFINE u == IF q.connected THEN <<o>> ELSE <<>>
             r == [q EXCEPT !.step = IF q.touch THEN "touch" ELSE "ended"]
  <2>4. /\ usage' = [usage EXCEPT ![c] = u] /\ caller' = [caller EXCEPT ![c] = r]
        /\ UNCHANGED <<token, editor, handled>>
    BY <1>10, <2>0, <2>2, <2>3 DEF recordTokenUsage
  <2>5. u \in Seq(Outcome)
    OBVIOUS
  <2>6. r \in CallerRecord /\ r.step \in {"touch", "ended"} /\ r.connected = q.connected
    BY DEF CallerRecord
  <2>7. r.connected => u = <<o>>
    BY <2>6
  <2> HIDE DEF u, r
  <2> QED
    BY <2>1, <2>4, <2>5, <2>6, <2>7, CallStep
<1>11. ASSUME NEW c \in Caller, TouchAccessToken(c) \/ HangUp(c) PROVE TokensInv'
  <2>0. PICK q \in CallerRecord : q = caller[c] /\ q.step \notin {"ended", "refused"}
    BY <1>11, <1>r DEF TouchAccessToken, HangUp
  <2>1. PICK u \in Seq(Outcome) : u = usage[c]
    BY <1>r
  <2>2. usage' = [usage EXCEPT ![c] = u] /\ UNCHANGED <<token, editor, handled>>
    BY <1>11, <1>t, <2>1 DEF TouchAccessToken, HangUp, TokensTypeOK
  <2>3. PICK r \in CallerRecord :
           /\ caller' = [caller EXCEPT ![c] = r]
           /\ r.rows = q.rows
           /\ \/ q.step = "touch" /\ r.step = "ended" /\ r.connected = q.connected
              \/ r.step = q.step /\ ~r.connected
    <3>1. /\ [q EXCEPT !.step = "ended"] \in CallerRecord
          /\ [q EXCEPT !.connected = FALSE] \in CallerRecord
      BY DEF CallerRecord
    <3>2. \/ q.step = "touch" /\ caller' = [caller EXCEPT ![c] = [q EXCEPT !.step = "ended"]]
          \/ caller' = [caller EXCEPT ![c] = [q EXCEPT !.connected = FALSE]]
      BY <1>11, <2>0 DEF TouchAccessToken, HangUp
    <3> QED
      BY <3>1, <3>2 DEF CallerRecord
  <2>4. /\ q.step \in {"new", "resolved", "authorize", "handler", "usage"} => u = <<>>
        /\ q.step = "usage" => \E o \in Outcome : q.rows = <<o>> /\ (o = "success" => c \in handled)
        /\ q.step = "touch" /\ q.connected =>
               \E o \in Outcome : u = <<o>> /\ (o = "success" => c \in handled)
    BY <1>t, <2>0, <2>1 DEF CallsRecorded, Truthful
  <2> QED
    BY ZenonT(40), <2>0, <2>2, <2>3, <2>4, CallStep
<1>12. ASSUME UNCHANGED tokensVars PROVE TokensInv'
  BY <1>12, <1>t
     DEF tokensVars, TokensInv, TokensTypeOK, NothingGranted, EditorsSaw, CallsRecorded, Truthful
<1> QED
  BY <1>1, <1>2, <1>3, <1>4, <1>5, <1>6, <1>7, <1>8, <1>9, <1>10, <1>11, <1>12 DEF TokensNext

(* The state an editor's write starts from, and the rows a call leaves.    *)
LEMMA BooksStep ==
    TokensInv /\ TokensInv' /\ [TokensNext]_tokensVars => [NoLostGrant /\ UsageTrail']_tokensVars
<1> SUFFICES ASSUME TokensInv, TokensInv', TokensNext PROVE NoLostGrant /\ UsageTrail'
  OBVIOUS
<1>1. UsageTrail'
  <2> SUFFICES ASSUME NEW c \in Caller, caller'[c].step = "ended", caller'[c].connected
               PROVE  Len(usage'[c]) = 1 /\ (usage'[c][1] = "success" => c \in handled')
    BY DEF UsageTrail
  <2>1. PICK o \in Outcome : usage'[c] = <<o>> /\ (o = "success" => c \in handled')
    BY DEF TokensInv, CallsRecorded, Truthful
  <2> QED
    BY <2>1
<1>2. NoLostGrant
  <2> SUFFICES ASSUME token'.grants # token.grants
               PROVE  /\ token.state = "valid"
                      /\ \E e \in Editor : /\ editor[e].new = token'.grants
                                           /\ editor[e].saw = token.grants
                                           /\ editor[e].before = token.grants
    BY DEF NoLostGrant
  <2>t. token \in TokenRow
    BY DEF TokensInv, TokensTypeOK
  <2>1. ~CreateToken /\ ~TokenExpires /\ ~RevokeToken
    BY <2>t DEF CreateToken, TokenExpires, RevokeToken, TokensInv, NothingGranted, TokenRow
  <2>2. PICK e \in Editor : UpdateAccessTokenPermissions(e)
    BY <2>1 DEF TokensNext, GetToken, AnswerUpdate, EditorGone, UpdatePermissions, Resolve, Hook,
       Authorize, Panic, recordTokenUsage, TouchAccessToken, HangUp, Handle
  <2>3. token' = [token EXCEPT !.grants = editor[e].new, !.version = @ + 1] /\ Matches(e)
    BY <2>2 DEF UpdateAccessTokenPermissions
  <2>4. token'.grants = editor[e].new
    BY <2>t, <2>3 DEF TokenRow
  <2>5. editor[e].saw = token.grants /\ editor[e].before = token.grants
    BY <2>2, <2>3 DEF UpdateAccessTokenPermissions, Matches, TokensInv, EditorsSaw
  <2> QED
    BY <2>3, <2>4, <2>5 DEF Matches
<1> QED
  BY <1>1, <1>2

(* What is written about a token is what happened to it: permissions are   *)
(* only replaced by an editor who saw what it replaces, while the token is *)
(* valid, and a call whose client stays has one row that tells how it ended*)
THEOREM TokenBooksHold == TokensSpec => TokenBooksTrue
<1>1. TokensSpec => []TokensInv
  BY TokensStart, TokensKept, PTL DEF TokensSpec
<1> QED
  BY <1>1, BooksStep, PTL DEF TokensSpec, TokenBooksTrue

-----------------------------------------------------------------------------
(* The command registry.                                                   *)

(* Unless the agent gives up on an upload, the handler it waits for is the *)
(* only one, and it works on what the agent has loaded.                    *)
OneHandler ==
    "late" \notin regFaults =>
        \A s \in Snap : snap[s].step # "idle" => upload = s

(* How far a handler has come: what is upserted is registered, and what is *)
(* to be deleted is not of the snapshot.                                   *)
Progress ==
    "late" \notin regFaults =>
        \A s \in Snap :
            /\ snap[s].step = "upsert" =>
                 \A c \in Present(snap[s].commands) \ snap[s].left : registered[c] = snap[s].commands[c]
            /\ snap[s].step = "delete" =>
                 \A c \in Present(snap[s].commands) :
                     registered[c] = snap[s].commands[c] /\ c \notin snap[s].left

(* A settled command is in the directory, in the table, and in whatever    *)
(* is being uploaded, as it was settled.                                   *)
Settled ==
    "late" \notin regFaults =>
        \A c \in settled :
            /\ directory[c] # Absent /\ registered[c] = directory[c]
            /\ \A s \in Snap : snap[s].step # "idle" => snap[s].commands[c] = directory[c]

RegistryInv == RegistryTypeOK /\ OneHandler /\ Progress /\ Settled

(* A handler that is at work is a Snapshot.                                *)
LEMMA SnapshotRecords ==
    /\ NoCommands \in Commands /\ Present(NoCommands) = {}
    /\ NoSnapshot \in Snapshot
    /\ \A f \in Commands : Present(f) \in SUBSET Command
    /\ \A f \in Commands, c \in Command : c \in Present(f) <=> f[c] # Absent
<1>1. NoCommands \in Commands /\ Present(NoCommands) = {}
  BY DEF NoCommands, Commands, Present
<1>2. NoSnapshot \in Snapshot
  BY <1>1 DEF NoSnapshot, Snapshot
<1> QED
  BY <1>1, <1>2 DEF Present

(* At first the registry is the directory.                                 *)
LEMMA RegistryStart == RegistryInit => RegistryInv
<1> SUFFICES ASSUME RegistryInit PROVE RegistryInv
  OBVIOUS
<1>1. RegistryTypeOK
  BY SnapshotRecords, RegistryConstants DEF RegistryInit, RegistryTypeOK, RegistryConstants
<1>2. OneHandler /\ Progress /\ Settled
  BY DEF RegistryInit, OneHandler, Progress, Settled, NoSnapshot
<1> QED
  BY <1>1, <1>2 DEF RegistryInv

(* A step of a handler other than its answer.                              *)
LEMMA HandlerStep ==
    ASSUME RegistryInv, NEW s \in Snap,
           UNCHANGED <<regFaults, directory, commands, upload, edits, settled>>,
           NEW q \in Snapshot, q = snap[s], q.step # "idle",
           NEW r \in Snapshot, snap' = [snap EXCEPT ![s] = r],
           r.commands = q.commands, r.step # "idle", registered' \in Commands,
           "late" \notin regFaults =>
                \A c \in Present(q.commands) :
                    registered[c] = q.commands[c] => registered'[c] = q.commands[c],
           "late" \notin regFaults /\ r.step = "upsert" =>
                \A c \in Present(q.commands) \ r.left : registered'[c] = q.commands[c],
           "late" \notin regFaults /\ r.step = "delete" =>
                \A c \in Present(q.commands) : registered'[c] = q.commands[c] /\ c \notin r.left
    PROVE  RegistryInv'
<1>t. /\ snap \in [Snap -> Snapshot] /\ RegistryTypeOK
      /\ \A p \in Snap : snap'[p] = IF p = s THEN r ELSE snap[p]
      /\ directory \in Commands /\ settled \subseteq Command
  BY DEF RegistryInv, RegistryTypeOK
<1>1. RegistryTypeOK'
  BY <1>t DEF RegistryTypeOK
<1>2. OneHandler'
  BY <1>t DEF RegistryInv, OneHandler
<1>3. "late" \notin regFaults => \A p \in Snap : p # s => snap[p].step = "idle"
  BY DEF RegistryInv, OneHandler
<1>4. Progress'
  BY <1>t, <1>3 DEF Progress
<1>5. ASSUME "late" \notin regFaults, NEW c \in settled
      PROVE  /\ directory[c] # Absent /\ registered'[c] = directory[c]
             /\ \A p \in Snap : snap'[p].step # "idle" => snap'[p].commands[c] = directory[c]
  <2>1. directory[c] # Absent /\ registered[c] = directory[c] /\ q.commands[c] = directory[c]
    BY <1>5 DEF RegistryInv, Settled
  <2>2. c \in Present(q.commands)
    BY <1>t, <2>1 DEF Present
  <2> QED
    BY <1>t, <1>3, <1>5, <2>1, <2>2
<1>6. Settled'
  BY <1>5 DEF Settled
<1> QED
  BY <1>1, <1>2, <1>4, <1>6 DEF RegistryInv

(* A handler that ends, by its answer or cut short.                        *)
LEMMA HandlerEnds ==
    ASSUME RegistryInv, NEW s \in Snap, snap' = [snap EXCEPT ![s] = NoSnapshot],
           UNCHANGED <<regFaults, directory, commands, registered, edits>>,
           upload' \in {Absent, upload}, upload' # upload => upload = s, settled' \subseteq Command,
           \A c \in settled' \ settled :
               "late" \notin regFaults =>
                  /\ directory[c] # Absent /\ registered[c] = directory[c]
                  /\ upload = s
    PROVE  RegistryInv'
<1>t. /\ snap \in [Snap -> Snapshot] /\ RegistryTypeOK
      /\ \A p \in Snap : snap'[p] = IF p = s THEN NoSnapshot ELSE snap[p]
      /\ NoSnapshot \in Snapshot /\ NoSnapshot.step = "idle" /\ Absent \notin Snap
  BY SnapshotRecords, RegistryConstants
     DEF RegistryInv, RegistryTypeOK, NoSnapshot, RegistryConstants
<1>1. RegistryTypeOK'
  BY <1>t DEF RegistryTypeOK
<1>2. OneHandler'
  BY <1>t DEF RegistryInv, OneHandler
<1>3. Progress'
  BY <1>t DEF RegistryInv, Progress
<1>4. "late" \notin regFaults => \A p \in Snap : snap[p].step # "idle" => upload = p
  BY DEF RegistryInv, OneHandler
<1>5. Settled'
  BY <1>t, <1>4 DEF RegistryInv, Settled
<1> QED
  BY <1>1, <1>2, <1>3, <1>5 DEF RegistryInv

(* Every step of the agent and of a handler keeps the registry so.         *)
LEMMA RegistryKept == RegistryInv /\ [RegistryNext]_registryVars => RegistryInv'
<1> SUFFICES ASSUME RegistryInv, [RegistryNext]_registryVars PROVE RegistryInv'
  OBVIOUS
<1>t. /\ RegistryTypeOK /\ OneHandler /\ Progress /\ Settled
      /\ directory \in Commands /\ registered \in Commands /\ snap \in [Snap -> Snapshot]
      /\ settled \subseteq Command /\ upload \in Snap \cup {Absent}
      /\ Absent \notin Snap /\ MaxEdit \in Nat
  BY RegistryConstants DEF RegistryInv, RegistryTypeOK, RegistryConstants
<1>1. ASSUME NEW c \in Command, NEW v \in Content \cup {Absent}, EditDirectory(c, v)
      PROVE  RegistryInv'
  <2>1. /\ directory' = [directory EXCEPT ![c] = v] /\ settled' = settled \ {c}
        /\ UNCHANGED <<regFaults, commands, registered, snap, upload>>
    BY <1>1 DEF EditDirectory
  <2>2. directory' \in Commands /\ \A d \in Command \ {c} : directory'[d] = directory[d]
    BY <1>t, <2>1 DEF Commands
  <2>3. edits' \in 0..MaxEdit
    BY <1>1, <1>t DEF EditDirectory, RegistryTypeOK
  <2>4. RegistryTypeOK'
    BY <1>t, <2>1, <2>2, <2>3 DEF RegistryTypeOK
  <2>5. OneHandler' /\ Progress'
    BY <1>t, <2>1 DEF OneHandler, Progress
  <2>6. Settled'
    BY <1>t, <2>1, <2>2 DEF Settled
  <2> QED
    BY <2>4, <2>5, <2>6 DEF RegistryInv
<1>2. ASSUME reloadCommands PROVE RegistryInv'
  <2>0. upload = Absent /\ UNCHANGED <<regFaults, directory, registered, edits, settled>>
    BY <1>2 DEF reloadCommands
  <2>i. "late" \notin regFaults => \A p \in Snap : snap[p].step = "idle"
    BY <1>t, <2>0 DEF OneHandler
  <2>1. CASE UNCHANGED <<commands, snap, upload>>
    BY <1>t, <2>0, <2>1 DEF RegistryInv, RegistryTypeOK, OneHandler, Progress, Settled
  <2>2. CASE commands' = LoadCommands /\ UNCHANGED <<snap, upload>>
    BY <1>t, <2>0, <2>2 DEF RegistryInv, RegistryTypeOK, OneHandler, Progress, Settled, LoadCommands
  <2>3. ASSUME NEW s \in Snap, commands' = LoadCommands, snap[s].step = "idle", upload' = s,
               snap' = [snap EXCEPT ![s] = [step |-> "upsert", commands |-> LoadCommands,
                                            left |-> Present(LoadCommands)]]
        PROVE  RegistryInv'
    <3> DEFINE r == [step |-> "upsert", commands |-> directory, left |-> Present(directory)]
    <3>1. r \in Snapshot /\ r.step = "upsert" /\ r.commands = directory /\ r.left = Present(directory)
      BY <1>t, SnapshotRecords DEF Snapshot
    <3>2. \A p \in Snap : snap'[p] = IF p = s THEN r ELSE snap[p]
      BY <1>t, <2>3 DEF LoadCommands
    <3>3. snap' \in [Snap -> Snapshot]
      BY <1>t, <2>3, <3>1 DEF LoadCommands
    <3> HIDE DEF r
    <3>4. RegistryTypeOK'
      BY <1>t, <2>0, <2>3, <3>3 DEF RegistryTypeOK, LoadCommands
    <3>5. OneHandler' /\ Progress' /\ Settled'
      BY <1>t, <2>0, <2>i, <2>3, <3>1, <3>2 DEF OneHandler, Progress, Settled
    <3> QED
      BY <3>4, <3>5 DEF RegistryInv
  <2> QED
    BY <1>2, <2>1, <2>2, <2>3 DEF reloadCommands
<1>3. ASSUME GiveUpUpload PROVE RegistryInv'
  BY <1>3, <1>t DEF GiveUpUpload, RegistryInv, RegistryTypeOK, OneHandler, Progress, Settled
<1>4. ASSUME RestartAgent PROVE RegistryInv'
  BY <1>4, <1>t DEF RestartAgent, RegistryInv, RegistryTypeOK, OneHandler, Progress, Settled
<1>5. ASSUME NEW s \in Snap, NEW c \in Command, UpsertNodeCommand(s, c) PROVE RegistryInv'
  <2>0. PICK q \in Snapshot : q = snap[s] /\ q.step = "upsert" /\ c \in q.left
    BY <1>5, <1>t DEF UpsertNodeCommand
  <2> DEFINE r == [q EXCEPT !.left = q.left \ {c}]
  <2>1. /\ r \in Snapshot /\ r.step = "upsert" /\ r.commands = q.commands /\ r.left = q.left \ {c}
        /\ q.commands \in Commands
    BY <2>0 DEF Snapshot
  <2>2. /\ snap' = [snap EXCEPT ![s] = r] /\ registered' = [registered EXCEPT ![c] = q.commands[c]]
        /\ UNCHANGED <<regFaults, directory, commands, upload, edits, settled>>
    BY <1>5, <2>0 DEF UpsertNodeCommand
  <2>3. registered' \in Commands
    BY <1>t, <2>1, <2>2 DEF Commands
  <2>4. \A d \in Command : registered'[d] = IF d = c THEN q.commands[c] ELSE registered[d]
    BY <1>t, <2>2 DEF Commands
  <2>5. "late" \notin regFaults =>
           \A d \in Present(q.commands) \ q.left : registered[d] = q.commands[d]
    BY <1>t, <2>0 DEF Progress
  <2>6. Present(q.commands) \in SUBSET Command
    BY <2>1, SnapshotRecords
  <2> HIDE DEF r
  <2>7. \A d \in Present(q.commands) : registered[d] = q.commands[d] => registered'[d] = q.commands[d]
    BY <2>4, <2>6
  <2>8. "late" \notin regFaults =>
           \A d \in Present(q.commands) \ r.left : registered'[d] = q.commands[d]
    BY <2>1, <2>4, <2>5, <2>6
  <2> QED
    BY <2>0, <2>1, <2>2, <2>3, <2>7, <2>8, HandlerStep
<1>6. ASSUME NEW s \in Snap, NEW c \in Command, DeleteCommandsNotIn(s, c) PROVE RegistryInv'
  <2>0. PICK q \in Snapshot : q = snap[s] /\ q.step = "delete" /\ c \in q.left
    BY <1>6, <1>t DEF DeleteCommandsNotIn
  <2> DEFINE r == [q EXCEPT !.left = q.left \ {c}]
  <2>1. /\ r \in Snapshot /\ r.step = "delete" /\ r.commands = q.commands /\ r.left = q.left \ {c}
        /\ q.commands \in Commands
    BY <2>0 DEF Snapshot
  <2>2. /\ snap' = [snap EXCEPT ![s] = r] /\ registered' = [registered EXCEPT ![c] = Absent]
        /\ UNCHANGED <<regFaults, directory, commands, upload, edits, settled>>
    BY <1>6, <2>0 DEF DeleteCommandsNotIn
  <2>3. registered' \in Commands
    BY <1>t, <2>2 DEF Commands
  <2>4. \A d \in Command : registered'[d] = IF d = c THEN Absent ELSE registered[d]
    BY <1>t, <2>2 DEF Commands
  <2>5. "late" \notin regFaults =>
           \A d \in Present(q.commands) : registered[d] = q.commands[d] /\ d \notin q.left
    BY <1>t, <2>0 DEF Progress
  <2>6. Present(q.commands) \in SUBSET Command
    BY <2>1, SnapshotRecords
  <2> HIDE DEF r
  <2>7. "late" \notin regFaults =>
           \A d \in Present(q.commands) : registered'[d] = q.commands[d] /\ d \notin r.left
    BY <2>0, <2>1, <2>4, <2>5, <2>6
  <2> QED
    BY <2>0, <2>1, <2>2, <2>3, <2>7, HandlerStep
<1>7. ASSUME NEW s \in Snap, SelectCommandsNotIn(s) PROVE RegistryInv'
  <2>0. PICK q \in Snapshot : q = snap[s] /\ q.step = "upsert" /\ q.left = {}
    BY <1>7, <1>t DEF SelectCommandsNotIn
  <2> DEFINE r == [q EXCEPT !.step = "delete", !.left = Present(registered) \ Present(q.commands)]
  <2>1. /\ r \in Snapshot /\ r.step = "delete" /\ r.commands = q.commands
        /\ r.left = Present(registered) \ Present(q.commands)
    BY <2>0, <1>t, SnapshotRecords DEF Snapshot
  <2>2. /\ snap' = [snap EXCEPT ![s] = r]
        /\ UNCHANGED <<regFaults, directory, commands, registered, upload, edits, settled>>
    BY <1>7, <2>0 DEF SelectCommandsNotIn
  <2>5. "late" \notin regFaults => \A d \in Present(q.commands) : registered[d] = q.commands[d]
    BY <1>t, <2>0 DEF Progress
  <2> HIDE DEF r
  <2> QED
    BY <1>t, <2>0, <2>1, <2>2, <2>5, HandlerStep
<1>8. ASSUME NEW s \in Snap, AnswerSnapshot(s) PROVE RegistryInv'
  <2>0. PICK q \in Snapshot : q = snap[s] /\ q.step = "delete" /\ q.left = {}
    BY <1>8, <1>t DEF AnswerSnapshot
  <2>1. /\ snap' = [snap EXCEPT ![s] = NoSnapshot]
        /\ upload' = IF upload = s THEN Absent ELSE upload
        /\ settled' = settled \cup {c \in Present(directory) : q.commands[c] = directory[c]}
        /\ UNCHANGED <<regFaults, directory, commands, registered, edits>>
    BY <1>8, <2>0 DEF AnswerSnapshot
  <2>2. Present(directory) \in SUBSET Command /\ q.commands \in Commands
    BY <1>t, SnapshotRecords DEF Snapshot
  <2>3. ASSUME "late" \notin regFaults, NEW c \in settled' \ settled
        PROVE  directory[c] # Absent /\ registered[c] = directory[c] /\ upload = s
    <3>1. c \in Command /\ directory[c] # Absent /\ q.commands[c] = directory[c]
      BY <2>1, <2>2, <2>3 DEF Present
    <3>2. c \in Present(q.commands)
      BY <3>1 DEF Present
    <3>3. registered[c] = q.commands[c] /\ upload = s
      BY <1>t, <2>0, <2>3, <3>2 DEF Progress, OneHandler
    <3> QED
      BY <3>1, <3>3
  <2>4. settled' \subseteq Command
    BY <1>t, <2>1, <2>2
  <2> QED
    BY <2>1, <2>3, <2>4, HandlerEnds
<1>9. ASSUME NEW s \in Snap, AbortSnapshot(s) PROVE RegistryInv'
  <2>1. /\ snap' = [snap EXCEPT ![s] = NoSnapshot]
        /\ UNCHANGED <<regFaults, directory, commands, registered, upload, edits, settled>>
    BY <1>9 DEF AbortSnapshot
  <2> QED
    BY <1>t, <2>1, HandlerEnds
<1>10. ASSUME UNCHANGED registryVars PROVE RegistryInv'
  BY <1>10, <1>t DEF registryVars, RegistryInv, RegistryTypeOK, OneHandler, Progress, Settled
<1> QED
  BY <1>1, <1>2, <1>3, <1>4, <1>5, <1>6, <1>7, <1>8, <1>9, <1>10 DEF RegistryNext, SnapshotStep

(* As long as no upload is given up on, a command that stays in the        *)
(* directory as it was uploaded stays registered, at every moment, whatever*)
(* is lost and however often the agent is restarted: the safety half of    *)
(* RegistryFollows.                                                        *)
THEOREM StaysRegisteredHolds == RegistrySpec => [](("late" \notin regFaults) => StaysRegistered)
<1>1. RegistrySpec => []RegistryInv
  BY RegistryStart, RegistryKept, PTL DEF RegistrySpec
<1>2. RegistryInv => ("late" \notin regFaults => StaysRegistered)
  BY DEF RegistryInv, Settled, StaysRegistered
<1> QED
  BY <1>1, <1>2, PTL

-----------------------------------------------------------------------------
(* The retention cleanup.                                                  *)

(* The mark of a lease goes with its row.                                  *)
LeaseThere == \A l \in important : <<"leases", l>> \in rows

(* A run that has a table to go on with.                                   *)
TablesLeft == \A r \in Run : run[r].step \in {"count", "delete"} => run[r].types # <<>>

(* Unless a protection is undone, no more can be deleted than is counted.  *)
Counted ==
    ~undone => \A r \in Run : run[r].step = "delete" => Cardinality(Candidates(r)) <= run[r].left

RetentionInv == RetentionTypeOK /\ LeaseThere /\ TablesLeft /\ Counted

(* The rows are finitely many, and so is whatever is taken from them.      *)
LEMMA FewRows == IsFiniteSet(Row)
<1>1. IsFiniteSet(LeaseTables) /\ IsFiniteSet({"outputs", "tasks"})
  <2>1. IsFiniteSet({}) /\ IsFiniteSet({} \cup {"sessions"})
    BY FS_EmptySet, FS_AddElement
  <2>2. IsFiniteSet(({} \cup {"sessions"}) \cup {"requests"})
    BY <2>1, FS_AddElement
  <2>3. IsFiniteSet((({} \cup {"sessions"}) \cup {"requests"}) \cup {"leases"})
    BY <2>2, FS_AddElement
  <2>4. IsFiniteSet({} \cup {"outputs"})
    BY <2>1, FS_AddElement
  <2>5. IsFiniteSet(({} \cup {"outputs"}) \cup {"tasks"})
    BY <2>4, FS_AddElement
  <2>6. /\ LeaseTables = (({} \cup {"sessions"}) \cup {"requests"}) \cup {"leases"}
        /\ {"outputs", "tasks"} = ({} \cup {"outputs"}) \cup {"tasks"}
    BY DEF LeaseTables
  <2> QED
    BY <2>3, <2>5, <2>6
<1>2. IsFiniteSet(LeaseTables \X KeptLease) /\ IsFiniteSet({"outputs", "tasks"} \X KeptTask)
  BY <1>1, FS_Product, RetentionConstants DEF RetentionConstants
<1> QED
  BY <1>2, FS_Union DEF Row

(* The candidates are rows, and finitely many.                             *)
LEMMA CandidatesCount ==
    ASSUME RetentionTypeOK, NEW r \in Run
    PROVE  /\ IsFiniteSet(Candidates(r)) /\ Cardinality(Candidates(r)) \in Nat
           /\ Candidates(r) \subseteq Row
<1>1. Candidates(r) \in SUBSET Row
  BY DEF Candidates, RetentionTypeOK
<1> QED
  BY <1>1, FewRows, FS_Subset, FS_CardinalityType

(* At first no run is under way and no lease is protected.                 *)
LEMMA RetentionStart == RetentionInit => RetentionInv
<1> SUFFICES ASSUME RetentionInit PROVE RetentionInv
  OBVIOUS
<1>1. IdleRun \in RunRecord
  BY DEF IdleRun, RunRecord
<1>2. RetentionTypeOK
  <2>1. /\ besides \in {"protection", "manual runs"} /\ rows \subseteq Row
        /\ important \subseteq KeptLease /\ held \subseteq KeptLease \X BOOLEAN
        /\ undone \in BOOLEAN
    BY DEF RetentionInit
  <2>2. /\ age \in [Thing -> 0..2] /\ run \in [Run -> RunRecord]
        /\ recorded \in [Run -> {"none", "running", "completed", "failed"}]
    <3>1. /\ age = [t \in Thing |-> 0] /\ run = [r \in Run |-> IdleRun]
          /\ recorded = [r \in Run |-> "none"]
      BY DEF RetentionInit
    <3>2. 0 \in 0..2
      OBVIOUS
    <3> QED
      BY <1>1, <3>1, <3>2
  <2> QED
    BY <2>1, <2>2 DEF RetentionTypeOK
<1>3. LeaseThere /\ TablesLeft /\ Counted
  BY DEF RetentionInit, LeaseThere, TablesLeft, Counted, IdleRun
<1> QED
  BY <1>2, <1>3 DEF RetentionInv

(* Fewer rows or more protected leases leave fewer candidates.             *)
LEMMA FewerCandidates ==
    ASSUME RetentionTypeOK, RetentionTypeOK', rows' \subseteq rows, important \subseteq important',
           NEW r \in Run, run'[r].due = run[r].due, run'[r].types = run[r].types
    PROVE  Cardinality(Candidates(r)') <= Cardinality(Candidates(r))
<1>1. Candidates(r)' \in SUBSET Candidates(r)
  BY DEF Candidates, Table
<1> QED
  BY <1>1, CandidatesCount, FS_Subset

(* What is true of the runs stays true when they are left alone.           *)
LEMMA RunsUntouched ==
    ASSUME RetentionInv, RetentionTypeOK', UNCHANGED run, rows' \subseteq rows,
           undone => undone', ~undone' => important \subseteq important'
    PROVE  TablesLeft' /\ Counted'
<1>1. TablesLeft'
  BY DEF RetentionInv, TablesLeft
<1>2. Counted'
  <2> SUFFICES ASSUME ~undone', NEW r \in Run, run'[r].step = "delete"
               PROVE  Cardinality(Candidates(r)') <= run'[r].left
    BY DEF Counted
  <2>1. Cardinality(Candidates(r)) <= run[r].left
    BY DEF RetentionInv, Counted
  <2>2. Cardinality(Candidates(r)') <= Cardinality(Candidates(r))
    BY FewerCandidates DEF RetentionInv
  <2>3. run[r].left \in Nat /\ Cardinality(Candidates(r)) \in Nat /\ Cardinality(Candidates(r)') \in Nat
    <3>1. run \in [Run -> RunRecord]
      BY DEF RetentionInv, RetentionTypeOK
    <3>2. Cardinality(Candidates(r)) \in Nat
      BY CandidatesCount DEF RetentionInv
    <3>3. Cardinality(Candidates(r)') \in Nat
      <4>1. Candidates(r)' \in SUBSET Row
        BY DEF Candidates, RetentionTypeOK
      <4> QED
        BY <4>1, FewRows, FS_Subset, FS_CardinalityType
    <3> QED
      BY <3>1, <3>2, <3>3 DEF RunRecord
  <2> QED
    BY <2>1, <2>2, <2>3
<1> QED
  BY <1>1, <1>2

(* The step of one run, when the rows and the marks are left alone.        *)
LEMMA RunStepAlone ==
    ASSUME RetentionInv, UNCHANGED <<besides, age, important, held, undone>>,
           NEW r \in Run, NEW q \in RunRecord, run' = [run EXCEPT ![r] = q],
           rows' \subseteq rows, LeaseThere',
           recorded' \in [Run -> {"none", "running", "completed", "failed"}],
           q.step \in {"count", "delete"} => q.types # <<>>,
           ~undone /\ q.step = "delete" => Cardinality(Candidates(r)') <= q.left
    PROVE  RetentionInv'
<1>t. run \in [Run -> RunRecord] /\ \A p \in Run : run'[p] = IF p = r THEN q ELSE run[p]
  BY DEF RetentionInv, RetentionTypeOK
<1>1. RetentionTypeOK'
  BY DEF RetentionInv, RetentionTypeOK
<1>2. TablesLeft'
  BY <1>t DEF RetentionInv, TablesLeft
<1>3. Counted'
  <2> SUFFICES ASSUME ~undone', NEW p \in Run, run'[p].step = "delete"
               PROVE  Cardinality(Candidates(p)') <= run'[p].left
    BY DEF Counted
  <2>1. CASE p = r
    BY <1>t, <2>1
  <2>2. CASE p # r
    <3>1. run'[p] = run[p]
      BY <1>t, <2>2
    <3>2. Cardinality(Candidates(p)) <= run[p].left
      BY <3>1 DEF RetentionInv, Counted
    <3>3. Cardinality(Candidates(p)') <= Cardinality(Candidates(p))
      BY <1>1, <3>1, FewerCandidates DEF RetentionInv
    <3>4. run[p].left \in Nat
      BY <1>t DEF RunRecord
    <3>5. Cardinality(Candidates(p)) \in Nat
      BY CandidatesCount DEF RetentionInv
    <3>6. Cardinality(Candidates(p)') \in Nat
      <4>1. Candidates(p)' \in SUBSET Row
        BY <1>1 DEF Candidates, RetentionTypeOK
      <4> QED
        BY <4>1, FewRows, FS_Subset, FS_CardinalityType
    <3> QED
      BY <3>1, <3>2, <3>3, <3>4, <3>5, <3>6
  <2> QED
    BY <2>1, <2>2
<1> QED
  BY <1>1, <1>2, <1>3 DEF RetentionInv

(* A run that has done with a table turns to the next, if there is one.    *)
LEMMA TableDone ==
    ASSUME RetentionTypeOK, TablesLeft, NEW r \in Run, run[r].step = "delete",
           NEW failed \in BOOLEAN, NextTable(r, failed)
    PROVE  \E q \in RunRecord :
              /\ run' = [run EXCEPT ![r] = q]
              /\ q.step \in {"count", "finish"}
              /\ q.step = "count" => q.types # <<>>
              /\ failed => q.failed
<1>0. PICK k \in RunRecord : k = run[r]
  BY DEF RetentionTypeOK
<1>1. k.types \in Seq(Tables) /\ k.types # <<>> /\ k.step = "delete"
  BY <1>0 DEF TablesLeft, RunRecord
<1> DEFINE q == [step |-> IF Len(k.types) = 1 THEN "finish" ELSE "count", types |-> Tail(k.types),
                 left |-> 0, due |-> {row \in k.due : Table(row) # Head(k.types)},
                 failed |-> (k.failed \/ failed)]
<1>2. Tail(k.types) \in Seq(Tables) /\ (Len(k.types) # 1 => Tail(k.types) # <<>>)
  <2>1. Tail(k.types) \in Seq(Tables) /\ Len(Tail(k.types)) = Len(k.types) - 1 /\ Len(k.types) \in Nat
    BY <1>1
  <2>2. ASSUME Tail(k.types) = <<>> PROVE Len(k.types) = 1
    <3>1. Len(<<>>) = 0
      OBVIOUS
    <3>2. Len(Tail(k.types)) = 0
      BY <2>2, <3>1
    <3> QED
      BY <2>1, <3>2
  <2> QED
    BY <2>1, <2>2
<1>3. {row \in k.due : Table(row) # Head(k.types)} \in SUBSET Row
  BY DEF RunRecord
<1>4. q \in RunRecord
  BY <1>2, <1>3 DEF RunRecord
<1>5. run' = [run EXCEPT ![r] = q]
  BY <1>0 DEF NextTable
<1>6. q.step \in {"count", "finish"} /\ (q.step = "count" => q.types # <<>>) /\ (failed => q.failed)
  BY <1>2
<1> HIDE DEF q
<1> QED
  BY <1>4, <1>5, <1>6

(* What one DELETE does: nothing, because nothing is left; an error, which *)
(* only requests can meet; or a batch, after which the run goes on with    *)
(* what is still counted or, if nothing is, turns to the next table.       *)
NothingLeft(r) ==
    /\ NextTable(r, FALSE) /\ UNCHANGED rows
    /\ ~undone => Candidates(r) = {}
ErrorMet(r) ==
    /\ NextTable(r, TRUE) /\ UNCHANGED rows
    /\ Head(run[r].types) = "requests"
Removed(r, batch) ==
    /\ rows' = rows \ (batch \cup Cascade(batch))
    /\ \A row \in batch : ~Referenced(row)
    /\ \/ /\ run[r].left > Cardinality(batch)
          /\ run' = [run EXCEPT ![r].left = @ - Cardinality(batch)]
       \/ /\ NextTable(r, FALSE)
          /\ ~undone => batch = Candidates(r)

(* A batch finds nothing, meets a referenced request, or is removed.       *)
LEMMA BatchOutcome ==
    ASSUME RetentionInv, NEW r \in Run, DeleteBatch(r)
    PROVE  \/ NothingLeft(r)
           \/ ErrorMet(r)
           \/ \E batch \in SUBSET Candidates(r) : Removed(r, batch)
<1>1. /\ IsFiniteSet(Candidates(r)) /\ Cardinality(Candidates(r)) \in Nat
      /\ run[r].step = "delete" /\ run[r].left \in Nat
      /\ ~undone => Cardinality(Candidates(r)) <= run[r].left
  BY CandidatesCount DEF RetentionInv, RetentionTypeOK, RunRecord, DeleteBatch, Counted
<1>2. CASE (run[r].left = 0 \/ Candidates(r) = {}) /\ NextTable(r, FALSE) /\ UNCHANGED rows
  <2>1. ~undone => Cardinality(Candidates(r)) = 0 \/ Candidates(r) = {}
    BY <1>1, <1>2
  <2>2. ~undone => Candidates(r) = {}
    BY <1>1, <2>1, FS_EmptySet
  <2> QED
    BY <1>2, <2>2 DEF NothingLeft
<1>3. ASSUME NEW batch \in Batches(r), \E row \in batch : Referenced(row),
             AfterError(r), UNCHANGED rows
      PROVE  ErrorMet(r)
  <2>1. batch \in SUBSET Candidates(r)
    BY DEF Batches, kSubset
  <2>2. Head(run[r].types) = "requests"
    BY <1>3, <2>1 DEF Candidates, Referenced
  <2> QED
    BY <1>3, <2>2 DEF ErrorMet, AfterError
<1>4. ASSUME NEW batch \in Batches(r), ~\E row \in batch : Referenced(row),
             rows' = rows \ (batch \cup Cascade(batch)), AfterBatch(r, Cardinality(batch))
      PROVE  batch \in SUBSET Candidates(r) /\ Removed(r, batch)
  <2>1. batch \in SUBSET Candidates(r)
    BY DEF Batches, kSubset
  <2>2. IsFiniteSet(batch) /\ Cardinality(batch) \in Nat
        /\ Cardinality(batch) <= Cardinality(Candidates(r))
        /\ (Cardinality(batch) = Cardinality(Candidates(r)) => batch = Candidates(r))
    <3>1. IsFiniteSet(batch) /\ Cardinality(batch) <= Cardinality(Candidates(r))
          /\ (Cardinality(Candidates(r)) = Cardinality(batch) => Candidates(r) = batch)
      BY <1>1, <2>1, FS_Subset
    <3> QED
      BY <3>1, FS_CardinalityType
  <2>3. CASE run[r].left > Cardinality(batch)
    BY <1>4, <2>1, <2>3 DEF AfterBatch, Removed
  <2>4. CASE ~(run[r].left > Cardinality(batch))
    <3>1. NextTable(r, FALSE)
      BY <1>4, <2>4 DEF AfterBatch
    <3>2. ~undone => batch = Candidates(r)
      BY <1>1, <2>2, <2>4
    <3> QED
      BY <1>4, <2>1, <3>1, <3>2 DEF Removed
  <2> QED
    BY <2>3, <2>4
<1> QED
  BY <1>2, <1>3, <1>4 DEF DeleteBatch

(* A batch keeps the invariant: it takes at most what was counted.         *)
LEMMA DeleteKeeps ==
    ASSUME RetentionInv, NEW r \in Run, DeleteBatch(r)
    PROVE  RetentionInv'
<1>t. /\ RetentionTypeOK /\ TablesLeft /\ LeaseThere
      /\ run[r] \in RunRecord /\ run[r].step = "delete" /\ run[r].types # <<>>
      /\ UNCHANGED <<besides, age, important, held, recorded, undone>>
      /\ recorded \in [Run -> {"none", "running", "completed", "failed"}]
  BY DEF RetentionInv, RetentionTypeOK, DeleteBatch, TablesLeft
<1>1. ASSUME NEW failed \in BOOLEAN, NextTable(r, failed), rows' \subseteq rows, LeaseThere'
      PROVE  RetentionInv'
  <2>1. PICK q \in RunRecord :
           /\ run' = [run EXCEPT ![r] = q]
           /\ q.step \in {"count", "finish"}
           /\ q.step = "count" => q.types # <<>>
    BY <1>t, <1>1, TableDone
  <2>2. UNCHANGED <<besides, age, important, held, undone>>
    BY <1>t
  <2>4. q.step # "delete"
    BY <2>1
  <2>3. recorded' \in [Run -> {"none", "running", "completed", "failed"}]
    BY <1>t
  <2> QED
    BY <1>1, <2>1, <2>2, <2>3, <2>4, RunStepAlone
<1>2. CASE NothingLeft(r)
  BY <1>t, <1>1, <1>2 DEF NothingLeft, LeaseThere
<1>3. CASE ErrorMet(r)
  BY <1>t, <1>1, <1>3 DEF ErrorMet, LeaseThere
<1>4. ASSUME NEW batch \in SUBSET Candidates(r), Removed(r, batch)
      PROVE  RetentionInv'
  <2>1. rows' \subseteq rows
    BY <1>4 DEF Removed
  <2>2. LeaseThere'
    BY <1>t, <1>4 DEF Removed, LeaseThere, Candidates, Cascade, Table
  <2>3. CASE NextTable(r, FALSE)
    BY <1>1, <2>1, <2>2, <2>3
  <2>4. CASE /\ run[r].left > Cardinality(batch)
             /\ run' = [run EXCEPT ![r].left = @ - Cardinality(batch)]
    <3>0. PICK k \in RunRecord : k = run[r]
      BY <1>t
    <3>1. /\ IsFiniteSet(batch) /\ Cardinality(batch) \in Nat
          /\ Cardinality(Candidates(r) \ batch) = Cardinality(Candidates(r)) - Cardinality(batch)
      <4>1. IsFiniteSet(Candidates(r)) /\ Cardinality(Candidates(r)) \in Nat
        BY <1>t, CandidatesCount
      <4>2. IsFiniteSet(batch) /\ Cardinality(batch) \in Nat
        BY <4>1, FS_Subset, FS_CardinalityType
      <4>3. Candidates(r) \cap batch = batch
        OBVIOUS
      <4>4. Cardinality(Candidates(r) \ batch)
               = Cardinality(Candidates(r)) - Cardinality(Candidates(r) \cap batch)
        BY <4>1, FS_Difference
      <4> QED
        BY <4>2, <4>3, <4>4
    <3> DEFINE q == [k EXCEPT !.left = k.left - Cardinality(batch)]
    <3>2. k.left \in Nat /\ k.left - Cardinality(batch) \in Nat
      BY <2>4, <3>0, <3>1 DEF RunRecord
    <3>3. /\ q \in RunRecord /\ q.step = "delete" /\ q.types = k.types /\ q.due = k.due
          /\ q.left = k.left - Cardinality(batch)
      BY <1>t, <3>0, <3>2 DEF RunRecord
    <3>4. run' = [run EXCEPT ![r] = q]
      BY <2>4, <3>0
    <3> HIDE DEF q
    <3>5. run'[r] = q
      BY <1>t, <3>4 DEF RetentionTypeOK
    <3>6. Candidates(r)' \in SUBSET (Candidates(r) \ batch)
      BY <1>t, <1>4, <3>0, <3>3, <3>5 DEF Candidates, Removed, Table
    <3>7. ~undone => Cardinality(Candidates(r)') <= q.left
      <4> SUFFICES ASSUME ~undone PROVE Cardinality(Candidates(r)') <= q.left
        OBVIOUS
      <4>1. Cardinality(Candidates(r)) <= k.left
        BY <1>t, <3>0 DEF RetentionInv, Counted
      <4>2. IsFiniteSet(Candidates(r) \ batch) /\ Cardinality(Candidates(r)) \in Nat
        BY <1>t, CandidatesCount, FS_Difference
      <4>3. Cardinality(Candidates(r)') <= Cardinality(Candidates(r) \ batch)
            /\ Cardinality(Candidates(r)') \in Nat
        BY <3>6, <4>2, FS_Subset, FS_CardinalityType
      <4> QED
        BY <3>1, <3>2, <3>3, <4>1, <4>2, <4>3
    <3> QED
      BY <1>t, <2>1, <2>2, <3>0, <3>3, <3>4, <3>7, RunStepAlone
  <2> QED
    BY <1>4, <2>3, <2>4 DEF Removed
<1> QED
  BY <1>2, <1>3, <1>4, BatchOutcome

(* Every step of a run and of a writer of leases keeps the invariant.      *)
LEMMA RetentionKept == RetentionInv /\ [RetentionNext]_retentionVars => RetentionInv'
<1> SUFFICES ASSUME RetentionInv, [RetentionNext]_retentionVars PROVE RetentionInv'
  OBVIOUS
<1>t. /\ RetentionTypeOK /\ TablesLeft /\ LeaseThere
      /\ run \in [Run -> RunRecord] /\ IdleRun \in RunRecord /\ IdleRun.step = "idle"
      /\ recorded \in [Run -> {"none", "running", "completed", "failed"}]
  <2>1. IdleRun \in RunRecord /\ IdleRun.step = "idle"
    BY DEF IdleRun, RunRecord
  <2> QED
    BY <2>1 DEF RetentionInv, RetentionTypeOK
<1>1. ASSUME NEW t \in Thing, Ages(t) PROVE RetentionInv'
  <2>1. RetentionTypeOK'
    <3>1. age' = [age EXCEPT ![t] = age[t] + 1] /\ age[t] < 2 /\ age \in [Thing -> 0..2]
      BY <1>1, <1>t DEF Ages, RetentionTypeOK
    <3>2. age[t] + 1 \in 0..2
      BY <3>1
    <3>3. age' \in [Thing -> 0..2]
      BY <3>1, <3>2
    <3> QED
      BY <1>1, <1>t, <3>3 DEF Ages, RetentionTypeOK
  <2>2. LeaseThere'
    BY <1>1, <1>t DEF Ages, LeaseThere
  <2>3. TablesLeft' /\ Counted'
    BY <1>1, <2>1, RunsUntouched DEF Ages
  <2> QED
    BY <2>1, <2>2, <2>3 DEF RetentionInv
<1>2. ASSUME NEW l \in KeptLease, NEW mark \in BOOLEAN, ReadLease(l, mark) PROVE RetentionInv'
  <2>1. RetentionTypeOK'
    BY <1>2, <1>t DEF ReadLease, RetentionTypeOK
  <2>2. LeaseThere'
    BY <1>2, <1>t DEF ReadLease, LeaseThere
  <2>3. TablesLeft' /\ Counted'
    BY <1>2, <2>1, RunsUntouched DEF ReadLease
  <2> QED
    BY <2>1, <2>2, <2>3 DEF RetentionInv
<1>3. ASSUME NEW l \in KeptLease, NEW mark \in BOOLEAN, UpdateLease(l, mark) PROVE RetentionInv'
  <2>1. RetentionTypeOK'
    BY <1>3, <1>t DEF UpdateLease, RetentionTypeOK
  <2>2. LeaseThere'
    BY <1>3, <1>t DEF UpdateLease, LeaseThere
  <2>3. ~undone' => important \subseteq important'
    BY <1>3, <1>t DEF UpdateLease, LeaseThere
  <2>4. TablesLeft' /\ Counted'
    BY <1>3, <2>1, <2>3, RunsUntouched DEF UpdateLease
  <2> QED
    BY <2>1, <2>2, <2>4 DEF RetentionInv
<1>4. ASSUME NEW r \in Run, NEW types \in TypeLists \cup {AllTypes}, NEW dry \in BOOLEAN,
             CreateCleanupRun(r, types, dry)
      PROVE  RetentionInv'
  <2>1. types \in Seq(Tables) /\ types # <<>>
    <3>1. AllTypes \in Seq(Tables) /\ AllTypes # <<>>
      BY DEF AllTypes, Tables, LeaseTables
    <3> QED
      BY <3>1, RetentionConstants DEF TypeLists, RetentionConstants
  <2> DEFINE q == [IdleRun EXCEPT !.step = "count", !.types = types,
                     !.due = {row \in rows : ~dry /\ Old(row) /\ Contains(types, Table(row))}]
  <2>2. q \in RunRecord /\ q.step = "count" /\ q.types = types
    BY <1>t, <2>1 DEF RunRecord, IdleRun, RetentionTypeOK
  <2>3. run' = [run EXCEPT ![r] = q]
    BY <1>4 DEF CreateCleanupRun
  <2> HIDE DEF q
  <2> QED
    BY <1>4, <1>t, <2>1, <2>2, <2>3, RunStepAlone DEF CreateCleanupRun, LeaseThere
<1>5. ASSUME NEW r \in Run, CountCandidates(r) PROVE RetentionInv'
  <2>0. PICK k \in RunRecord : k = run[r] /\ k.step = "count"
    BY <1>5, <1>t DEF CountCandidates
  <2> DEFINE q == [k EXCEPT !.step = "delete", !.left = Cardinality(Candidates(r))]
  <2>1. Cardinality(Candidates(r)) \in Nat
    BY <1>t, CandidatesCount
  <2>2. /\ q \in RunRecord /\ q.step = "delete" /\ q.types = k.types /\ q.due = k.due
        /\ q.left = Cardinality(Candidates(r))
    BY <2>1 DEF RunRecord
  <2>3. run' = [run EXCEPT ![r] = q]
    BY <1>5, <2>0 DEF CountCandidates
  <2> HIDE DEF q
  <2>4. run'[r] = q
    BY <1>t, <2>3
  <2>5. Candidates(r)' = Candidates(r)
    BY <1>5, <2>0, <2>2, <2>4 DEF Candidates, CountCandidates, Table
  <2>6. q.types # <<>>
    BY <1>t, <2>0, <2>2 DEF TablesLeft
  <2>7. Cardinality(Candidates(r)') <= q.left
    BY <2>1, <2>2, <2>5
  <2> QED
    BY <1>5, <1>t, <2>2, <2>3, <2>6, <2>7, RunStepAlone DEF CountCandidates, LeaseThere
<1>6. ASSUME NEW r \in Run, FinishCleanupRun(r) \/ RunGone(r) PROVE RetentionInv'
  <2>1. /\ run' = [run EXCEPT ![r] = IdleRun]
        /\ UNCHANGED <<besides, rows, age, important, held, undone>>
        /\ recorded' \in [Run -> {"none", "running", "completed", "failed"}]
    BY <1>6, <1>t DEF FinishCleanupRun, RunGone
  <2>2. LeaseThere'
    BY <1>t, <2>1 DEF LeaseThere
  <2> QED
    BY <1>t, <2>1, <2>2, RunStepAlone
<1>7. ASSUME UNCHANGED retentionVars PROVE RetentionInv'
  <2>1. RetentionTypeOK' /\ LeaseThere'
    BY <1>7, <1>t DEF retentionVars, RetentionTypeOK, LeaseThere
  <2>2. TablesLeft' /\ Counted'
    BY <1>7, <2>1, RunsUntouched DEF retentionVars
  <2> QED
    BY <2>1, <2>2 DEF RetentionInv
<1>8. CASE ScheduledRun \/ handleCleanupRun
  BY <1>4, <1>8 DEF ScheduledRun, handleCleanupRun, Run
<1>9. CASE \E r \in Run : RunStep(r) \/ RunGone(r)
  BY <1>5, <1>6, <1>9, DeleteKeeps DEF RunStep
<1>10. CASE \E l \in KeptLease :
              \/ ReadForUpdate(l) \/ ProtectLease(l)
              \/ \E mark \in BOOLEAN : UpdateLease(l, mark)
  BY <1>2, <1>3, <1>10 DEF ReadForUpdate, ProtectLease
<1> QED
  BY <1>1, <1>7, <1>8, <1>9, <1>10 DEF RetentionNext

(* A step of a run that removes rows, or turns from a table, is a DELETE.  *)
LEMMA CleanupStep ==
    RetentionInv /\ [RetentionNext]_retentionVars
        => [ProtectedKept /\ CompletedMeansClean]_retentionVars
<1> SUFFICES ASSUME RetentionInv, RetentionNext PROVE ProtectedKept /\ CompletedMeansClean
  OBVIOUS
<1>t. /\ RetentionTypeOK /\ TablesLeft /\ LeaseThere
      /\ run \in [Run -> RunRecord]
  BY DEF RetentionInv, RetentionTypeOK
<1>1. ASSUME NEW r \in Run, DeleteBatch(r) PROVE ProtectedKept /\ CompletedMeansClean
  <2>0. run[r].step = "delete" /\ UNCHANGED undone
    BY <1>1 DEF DeleteBatch
  <2>1. ProtectedKept
    <3> SUFFICES ASSUME NEW l \in important, NEW x \in {<<"leases", l>>, <<"requests", l>>}, x \in rows
                 PROVE  x \in rows'
      BY DEF ProtectedKept
    <3>1. CASE UNCHANGED rows
      BY <3>1
    <3>2. ASSUME NEW batch \in SUBSET Candidates(r), Removed(r, batch) PROVE x \in rows'
      <4>1. x \notin Cascade(batch)
        BY DEF Cascade, Table
      <4>2. x \notin batch
        <5>1. CASE x = <<"leases", l>>
          <6>1. Table(x) = "leases" /\ x[2] = l
            BY <5>1 DEF Table
          <6> QED
            BY <3>2, <6>1 DEF Candidates
        <5>2. CASE x = <<"requests", l>>
          <6>1. Table(x) = "requests" /\ x[2] = l
            BY <5>2 DEF Table
          <6>2. <<"leases", l>> \in rows
            BY <1>t, <5>2 DEF LeaseThere
          <6> QED
            BY <3>2, <6>1, <6>2 DEF Removed, Referenced
        <5> QED
          BY <5>1, <5>2
      <4> QED
        BY <3>2, <4>1, <4>2 DEF Removed
    <3> QED
      BY <1>1, <3>1, <3>2, BatchOutcome DEF NothingLeft, ErrorMet
  <2>2. CompletedMeansClean
    <3> SUFFICES ASSUME NEW p \in Run, ~undone, run[p].step = "delete",
                        run'[p].step \in {"count", "finish"},
                        Head(run[p].types) = "requests" => ~run'[p].failed,
                        NEW x \in run[p].due \cap rows', Table(x) = Head(run[p].types)
                 PROVE  x \in {"leases"} \X important
      BY DEF CompletedMeansClean
    <3>1. \E q : run' = [run EXCEPT ![r] = q]
      <4>1. ASSUME NEW failed \in BOOLEAN, NextTable(r, failed)
            PROVE \E q : run' = [run EXCEPT ![r] = q]
        BY <1>t, <2>0, <4>1, TableDone
      <4>2. ASSUME NEW batch \in SUBSET Candidates(r), Removed(r, batch)
            PROVE  \E q : run' = [run EXCEPT ![r] = q]
        BY <4>1, <4>2 DEF Removed
      <4> QED
        BY <1>1, <4>1, <4>2, BatchOutcome DEF NothingLeft, ErrorMet
    <3>2. p = r
      BY <1>t, <3>1
    <3>3. x \in rows /\ x \in Row
      <4>1. rows' \subseteq rows
        BY <1>1, BatchOutcome DEF NothingLeft, ErrorMet, Removed
      <4> QED
        BY <1>t, <4>1 DEF RetentionTypeOK
    <3>4. x \in Candidates(r) \/ (Table(x) = "leases" /\ x[2] \in important)
      BY <3>2, <3>3 DEF Candidates
    <3>5. ~ErrorMet(r)
      <4> SUFFICES ASSUME ErrorMet(r) PROVE FALSE
        OBVIOUS
      <4>1. PICK q \in RunRecord : run' = [run EXCEPT ![r] = q] /\ q.failed
        BY <1>t, <2>0, TableDone DEF ErrorMet
      <4>2. run'[p].failed
        BY <1>t, <3>2, <4>1
      <4> QED
        BY <3>2, <4>2 DEF ErrorMet
    <3>6. x \notin Candidates(r)
      <4>1. CASE NothingLeft(r)
        BY <4>1 DEF NothingLeft
      <4>2. ASSUME NEW batch \in SUBSET Candidates(r), Removed(r, batch)
            PROVE x \notin Candidates(r)
        <5>1. CASE NextTable(r, FALSE) /\ batch = Candidates(r)
          BY <4>2, <5>1 DEF Removed
        <5>2. CASE run' = [run EXCEPT ![r].left = @ - Cardinality(batch)]
          <6>1. PICK k \in RunRecord : k = run[r]
            BY <1>t
          <6>2. run'[r].step = "delete"
            BY <1>t, <2>0, <5>2, <6>1 DEF RunRecord
          <6> QED
            BY <3>2, <6>2
        <5> QED
          BY <4>2, <5>1, <5>2 DEF Removed
      <4> QED
        BY <1>1, <3>5, <4>1, <4>2, BatchOutcome
    <3>7. x = <<x[1], x[2]>>
      BY <3>3 DEF Row
    <3> QED
      BY <3>4, <3>6, <3>7 DEF Table
  <2> QED
    BY <2>1, <2>2
<1>2. ASSUME UNCHANGED rows,
             \A r \in Run : run[r].step = "delete" => run'[r].step \in {"delete", "idle"}
      PROVE  ProtectedKept /\ CompletedMeansClean
  BY <1>2 DEF ProtectedKept, CompletedMeansClean
<1>3. CASE UNCHANGED <<rows, run>>
  BY <1>2, <1>3
<1>4. ASSUME NEW r \in Run, NEW q, run' = [run EXCEPT ![r] = q], UNCHANGED rows,
             run[r].step # "delete" \/ q.step = "idle"
      PROVE  ProtectedKept /\ CompletedMeansClean
  <2>1. \A p \in Run : run'[p] = IF p = r THEN q ELSE run[p]
    BY <1>t, <1>4
  <2> QED
    BY <1>2, <1>4, <2>1
<1>5. ASSUME NEW r \in Run, CountCandidates(r) \/ FinishCleanupRun(r) \/ RunGone(r)
      PROVE  ProtectedKept /\ CompletedMeansClean
  <2>1. CASE CountCandidates(r)
    <3>1. run' = [run EXCEPT ![r] = [run[r] EXCEPT !.step = "delete", !.left = Cardinality(Candidates(r))]]
      BY <2>1 DEF CountCandidates
    <3> QED
      BY <1>4, <2>1, <3>1 DEF CountCandidates
  <2>2. CASE FinishCleanupRun(r) \/ RunGone(r)
    BY <1>4, <2>2 DEF FinishCleanupRun, RunGone, IdleRun
  <2> QED
    BY <1>5, <2>1, <2>2
<1>6. ASSUME NEW r \in Run, NEW types, NEW dry, CreateCleanupRun(r, types, dry)
      PROVE  ProtectedKept /\ CompletedMeansClean
  BY <1>4, <1>6 DEF CreateCleanupRun
<1>7. CASE \/ \E t \in Thing : Ages(t)
           \/ \E l \in KeptLease :
                 \/ ReadForUpdate(l) \/ ProtectLease(l)
                 \/ \E mark \in BOOLEAN : UpdateLease(l, mark)
  BY <1>3, <1>7 DEF Ages, ReadForUpdate, ProtectLease, ReadLease, UpdateLease
<1>8. CASE ScheduledRun \/ handleCleanupRun
  BY <1>6, <1>8 DEF ScheduledRun, handleCleanupRun, Run
<1>9. CASE \E r \in Run : RunStep(r) \/ RunGone(r)
  BY <1>1, <1>5, <1>9 DEF RunStep
<1> QED
  BY <1>7, <1>8, <1>9 DEF RetentionNext

(* No statement of any cleanup removes a lease that is protected at that   *)
(* moment, nor the request it came from, and a run that goes on from a     *)
(* table without an error has removed what it had to: the safety half of   *)
(* CleanupSound.                                                           *)
THEOREM CleanupSafe == RetentionSpec => [][ProtectedKept /\ CompletedMeansClean]_retentionVars
<1>1. RetentionSpec => []RetentionInv
  BY RetentionStart, RetentionKept, PTL DEF RetentionSpec
<1> QED
  BY <1>1, CleanupStep, PTL DEF RetentionSpec

-----------------------------------------------------------------------------
(* Administrator logins.                                                   *)

USE DEF FirstPassword, IdleLogin, IdleChange, NoSession, EmptyBucket

(* The requests that have passed the limiter's check and are not yet       *)
(* verified, and how many there are besides the one that locks.            *)
Pending == {h \in Login : login[h].step \in {"read", "verify"}}
Others == Cardinality(Login) - 1

(* The wrong passwords that will still be in the window when the lock      *)
(* ends, and the recent ones of before its end and of after it.            *)
Late == {f \in wrong : f[1] + Window > bucket.lockedUntil}
Before == {f \in Recent(wrong) : f[1] < bucket.lockedUntil}
After == {f \in Recent(wrong) : f[1] >= bucket.lockedUntil}

Times ==
    /\ IsFiniteSet(wrong)
    /\ IsFiniteSet(bucket.failures)
    /\ \A f \in wrong \cup bucket.failures : f[1] <= seconds

(* A locked bucket counts nothing: what is verified meanwhile was pending. *)
WhileLocked ==
    Locked => /\ bucket.failures = {}
              /\ Cardinality(Recent(wrong)) + Cardinality(Pending) <= MaxFailures + 2 * Others
              /\ Cardinality(Late) + Cardinality(Pending) <= Others

(* An open one has counted whatever was verified since the last lock.      *)
WhileOpen ==
    ~Locked => /\ Cardinality(Before) <= Others
               /\ After = Recent(bucket.failures)

(* The row in a login's hands is the row.                                  *)
RowHeld == ~raced => \A h \in Login : Holds(h) => login[h].row = adminRow

SessionsInv ==
    /\ SessionsTypeOK /\ Times
    /\ WhileLocked /\ WhileOpen
    /\ RowHeld /\ PasswordKept

(* One element more is at most one more to count.                          *)
LEMMA OneMore ==
    ASSUME NEW S, NEW x, IsFiniteSet(S)
    PROVE  /\ IsFiniteSet(S \cup {x})
           /\ Cardinality(S \cup {x}) \in Nat
           /\ Cardinality(S \cup {x}) <= Cardinality(S) + 1
<1>1. IsFiniteSet(S \cup {x}) /\ Cardinality(S) \in Nat
  BY FS_AddElement, FS_CardinalityType
<1>2. Cardinality(S \cup {x}) = IF x \in S THEN Cardinality(S) ELSE Cardinality(S) + 1
  BY FS_AddElement
<1> QED
  BY <1>1, <1>2

(* The records of the model have their types.                              *)
LEMMA SessionRecords ==
    /\ FirstPassword \in Password
    /\ IdleLogin \in LoginRecord /\ IdleChange \in ChangeRecord
    /\ NoSession \in SessionRow
    /\ IsFiniteSet(Login) /\ Cardinality(Login) \in Nat \ {0}
    /\ Others \in Nat
<1>1. FirstPassword \in Password
  BY SessionsConstants DEF SessionsConstants
<1>2. Cardinality(Login) \in Nat \ {0}
  BY FS_CardinalityType, FS_EmptySet, SessionsConstants DEF SessionsConstants
<1> QED
  BY <1>1, <1>2, SessionsConstants
     DEF SessionsConstants, LoginRecord, ChangeRecord, SessionRow, Others

(* The sets that are counted are finite, and their sizes are numbers.      *)
LEMMA Countable ==
    ASSUME Times
    PROVE  /\ IsFiniteSet(Pending) /\ Cardinality(Pending) \in Nat
           /\ IsFiniteSet(Recent(wrong)) /\ Cardinality(Recent(wrong)) \in Nat
           /\ IsFiniteSet(Late) /\ Cardinality(Late) \in Nat
           /\ IsFiniteSet(Before) /\ Cardinality(Before) \in Nat
           /\ IsFiniteSet(After) /\ Cardinality(After) \in Nat
           /\ IsFiniteSet(Recent(bucket.failures)) /\ Cardinality(Recent(bucket.failures)) \in Nat
           /\ Cardinality(Recent(bucket.failures)) <= Cardinality(bucket.failures)
<1>1. IsFiniteSet(Login) /\ IsFiniteSet(wrong) /\ IsFiniteSet(bucket.failures)
  BY SessionRecords DEF Times
<1>2. Pending \in SUBSET Login
  BY DEF Pending
<1>3. Recent(wrong) \in SUBSET wrong /\ Late \in SUBSET wrong
  BY DEF Recent, Late
<1>4. Before \in SUBSET wrong /\ After \in SUBSET wrong
  BY DEF Before, After, Recent
<1>5. Recent(bucket.failures) \in SUBSET bucket.failures
  BY DEF Recent
<1>6. IsFiniteSet(Pending) /\ Cardinality(Pending) \in Nat
  BY <1>1, <1>2, FS_Subset, FS_CardinalityType
<1>7. /\ IsFiniteSet(Recent(wrong)) /\ Cardinality(Recent(wrong)) \in Nat
      /\ IsFiniteSet(Late) /\ Cardinality(Late) \in Nat
  BY <1>1, <1>3, FS_Subset, FS_CardinalityType
<1>8. /\ IsFiniteSet(Before) /\ Cardinality(Before) \in Nat
      /\ IsFiniteSet(After) /\ Cardinality(After) \in Nat
  BY <1>1, <1>4, FS_Subset, FS_CardinalityType
<1>9. /\ IsFiniteSet(Recent(bucket.failures)) /\ Cardinality(Recent(bucket.failures)) \in Nat
      /\ Cardinality(Recent(bucket.failures)) <= Cardinality(bucket.failures)
  BY <1>1, <1>5, FS_Subset, FS_CardinalityType
<1> QED
  BY <1>6, <1>7, <1>8, <1>9

(* While the bucket is open the window holds what was late and what is     *)
(* counted, which is less than what locks.                                 *)
LEMMA OpenBound ==
    ASSUME SessionsInv, ~Locked
    PROVE  Cardinality(Recent(wrong)) <= Others + MaxFailures - 1
<1>a. /\ Others \in Nat /\ Others = Cardinality(Login) - 1
      /\ MaxFailures \in Nat \ {0}
  BY SessionRecords, SessionsConstants DEF Others, SessionsConstants
<1>b. Cardinality(bucket.failures) < MaxFailures
  BY DEF SessionsInv, SessionsTypeOK
<1>c. IsFiniteSet(bucket.failures)
  BY DEF SessionsInv, Times
<1>1. Recent(wrong) = Before \cup After
  <2>1. \A f \in wrong : f[1] \in Nat
    BY SessionsConstants DEF SessionsInv, SessionsTypeOK, SessionsConstants, Failure
  <2>2. bucket.lockedUntil \in Nat
    BY DEF SessionsInv, SessionsTypeOK
  <2> QED
    BY <2>1, <2>2 DEF Before, After, Recent
<1>2. Before \cap After = {}
  <2>1. \A f \in wrong : f[1] \in Nat
    BY SessionsConstants DEF SessionsInv, SessionsTypeOK, SessionsConstants, Failure
  <2>2. bucket.lockedUntil \in Nat
    BY DEF SessionsInv, SessionsTypeOK
  <2> QED
    BY <2>1, <2>2 DEF Before, After, Recent
<1>3. Cardinality(Recent(wrong)) = Cardinality(Before) + Cardinality(After)
  <2>1. IsFiniteSet(Before) /\ IsFiniteSet(After)
    BY Countable DEF SessionsInv
  <2>2. Cardinality(Before \cup After)
           = Cardinality(Before) + Cardinality(After) - Cardinality(Before \cap After)
    BY <2>1, FS_Union
  <2>3. Cardinality(Before \cap After) = 0
    BY <1>2, FS_EmptySet
  <2>4. Cardinality(Before) \in Nat /\ Cardinality(After) \in Nat
    BY Countable DEF SessionsInv
  <2> QED
    BY <1>1, <2>2, <2>3, <2>4
<1>4. Cardinality(Before) <= Others /\ After = Recent(bucket.failures)
  BY DEF SessionsInv, WhileOpen
<1>5. /\ Cardinality(Before) \in Nat /\ Cardinality(After) \in Nat
      /\ Cardinality(After) <= Cardinality(bucket.failures)
  BY <1>4, Countable DEF SessionsInv
<1>6. Cardinality(bucket.failures) \in Nat
  BY <1>c, FS_CardinalityType
<1> QED
  BY <1>a, <1>b, <1>3, <1>4, <1>5, <1>6

(* In every state of the invariant the window holds no more than the bound.*)
LEMMA BoundFollows == SessionsInv => LoginsGuarded
<1> SUFFICES ASSUME SessionsInv PROVE LockoutBound
  BY DEF SessionsInv, LoginsGuarded
<1>1. /\ Others \in Nat /\ Others = Cardinality(Login) - 1
      /\ MaxFailures \in Nat \ {0}
  BY SessionRecords, SessionsConstants DEF Others, SessionsConstants
<1>4. CASE Locked
  BY <1>1, <1>4, Countable DEF SessionsInv, WhileLocked, LockoutBound
<1>5. CASE ~Locked
  BY <1>1, <1>5, OpenBound, Countable DEF SessionsInv, LockoutBound
<1> QED
  BY <1>4, <1>5

(* There are no logins and no failures at first.                           *)
LEMMA SessionsStart == SessionsInit => SessionsInv
<1> SUFFICES ASSUME SessionsInit PROVE SessionsInv
  OBVIOUS
<1>1. /\ wrong = {} /\ bucket = EmptyBucket /\ seconds = 0 /\ guesses = 0 /\ raced = FALSE
      /\ adminRow = FirstPassword /\ password = FirstPassword
      /\ login = [h \in Login |-> IdleLogin]
      /\ change = [h \in Change |-> IdleChange]
      /\ session = [s \in Session |-> NoSession]
  BY DEF SessionsInit
<1>2. /\ {Window, LockDuration, SessionTTL, MaxSeconds, MaxGuess} \subseteq Nat
      /\ MaxFailures \in Nat \ {0}
  BY SessionsConstants DEF SessionsConstants
<1>3. SessionsTypeOK
  <2>1. /\ bucket \in [failures : SUBSET Failure, lockedUntil : Nat]
        /\ Cardinality(bucket.failures) < MaxFailures
    BY <1>1, <1>2, FS_EmptySet
  <2>2. login \in [Login -> LoginRecord] /\ change \in [Change -> ChangeRecord]
        /\ session \in [Session -> SessionRow]
    BY <1>1, SessionRecords
  <2>3. seconds \in 0..MaxSeconds /\ guesses \in 0..MaxGuess /\ raced \in BOOLEAN
    <3>1. MaxSeconds \in Nat /\ MaxGuess \in Nat
      BY <1>2
    <3>2. 0 \in 0..MaxSeconds /\ 0 \in 0..MaxGuess
      BY <3>1
    <3> QED
      BY <1>1, <3>2
  <2>4. {adminRow, password} \subseteq Password /\ wrong \subseteq Failure
    BY <1>1, SessionRecords
  <2> QED
    BY <2>1, <2>2, <2>3, <2>4 DEF SessionsTypeOK
<1>4. Times
  BY <1>1, FS_EmptySet DEF Times
<1>5. ~Locked /\ Before = {} /\ After = {} /\ Recent(bucket.failures) = {}
  BY <1>1 DEF Locked, Before, After, Recent
<1>6. WhileLocked /\ WhileOpen
  BY <1>5, SessionRecords, FS_EmptySet DEF WhileLocked, WhileOpen
<1>7. RowHeld /\ PasswordKept
  BY <1>1 DEF RowHeld, Holds, PasswordKept
<1> QED
  BY <1>3, <1>4, <1>6, <1>7 DEF SessionsInv

(* The limiter's part of the invariant.                                    *)
Limiter == Times /\ WhileLocked /\ WhileOpen

(* A step that leaves the clock, the limiter and the pending requests      *)
(* alone leaves it true.                                                   *)
LEMMA LimiterUntouched ==
    ASSUME Limiter, UNCHANGED <<seconds, bucket, wrong>>, Pending' = Pending
    PROVE  Limiter'
<1>1. Locked' = Locked /\ Late' = Late /\ Before' = Before /\ After' = After
  BY DEF Locked, Late, Before, After, Recent
<1>2. Recent(wrong)' = Recent(wrong) /\ Recent(bucket.failures)' = Recent(bucket.failures)
  BY DEF Recent
<1>3. Times'
  BY DEF Limiter, Times
<1>4. WhileLocked'
  BY <1>1, <1>2 DEF Limiter, WhileLocked
<1>5. WhileOpen'
  BY <1>1, <1>2 DEF Limiter, WhileOpen
<1> QED
  BY <1>3, <1>4, <1>5 DEF Limiter

(* A login may only start while the bucket is open.                        *)
LEMMA LimiterStart ==
    ASSUME SessionsInv, NEW h \in Login, NEW g \in Password, StartLogin(h, g)
    PROVE  Limiter'
<1>0. UNCHANGED <<seconds, bucket, wrong>> /\ ~Locked /\ Times /\ WhileOpen
  BY DEF StartLogin, SessionsInv
<1>1. ~Locked' /\ Before' = Before /\ After' = After
  BY <1>0 DEF Locked, Before, After, Recent
<1>2. Recent(bucket.failures)' = Recent(bucket.failures)
  BY <1>0 DEF Recent
<1>3. Times'
  BY <1>0 DEF Times
<1>4. WhileLocked' /\ WhileOpen'
  BY <1>0, <1>1, <1>2 DEF WhileLocked, WhileOpen
<1> QED
  BY <1>3, <1>4 DEF Limiter

(* As time passes the window moves on; when it reaches the end of a lock,  *)
(* what is still in it is late.                                            *)
LEMMA LimiterTime ==
    ASSUME SessionsInv, SecondPasses
    PROVE  Limiter'
<1>0. /\ seconds \in Nat /\ seconds' = seconds + 1 /\ UNCHANGED <<bucket, login, wrong>>
      /\ Window \in Nat /\ bucket.lockedUntil \in Nat /\ Times /\ WhileLocked /\ WhileOpen
  BY SessionsConstants DEF SecondPasses, SessionsInv, SessionsTypeOK, SessionsConstants
<1>1. \A f \in wrong \cup bucket.failures : f[1] \in Nat
  BY SessionsConstants DEF SessionsInv, SessionsTypeOK, SessionsConstants, Failure
<1>2. Times'
  BY <1>0, <1>1 DEF Times
<1>3. Pending' = Pending
  BY <1>0 DEF Pending
<1>4. Recent(wrong)' \in SUBSET Recent(wrong)
  BY <1>0, <1>1 DEF Recent
<1>5. Cardinality(Recent(wrong)') <= Cardinality(Recent(wrong)) /\ Cardinality(Recent(wrong)') \in Nat
  BY <1>4, <1>0, Countable, FS_Subset, FS_CardinalityType
<1>6. Late' = Late
  BY <1>0 DEF Late
<1>7. WhileLocked'
  <2> SUFFICES ASSUME Locked' PROVE /\ bucket'.failures = {}
              /\ Cardinality(Recent(wrong)') + Cardinality(Pending') <= MaxFailures + 2 * Others
              /\ Cardinality(Late') + Cardinality(Pending') <= Others
    BY DEF WhileLocked, Others
  <2>1. Locked
    BY <1>0 DEF Locked
  <2>2. /\ bucket.failures = {}
        /\ Cardinality(Recent(wrong)) + Cardinality(Pending) <= MaxFailures + 2 * Others
        /\ Cardinality(Late) + Cardinality(Pending) <= Others
    BY <1>0, <2>1 DEF WhileLocked
  <2>3. Cardinality(Pending) \in Nat /\ Cardinality(Recent(wrong)) \in Nat /\ Others \in Nat
        /\ MaxFailures \in Nat
    BY <1>0, Countable, SessionRecords, SessionsConstants DEF SessionsConstants
  <2> QED
    BY <1>0, <1>3, <1>5, <1>6, <2>2, <2>3
<1>8. WhileOpen'
  <2> SUFFICES ASSUME ~Locked'
               PROVE  Cardinality(Before') <= Others /\ After' = Recent(bucket.failures)'
    BY DEF WhileOpen, Others
  <2>1. CASE Locked
    <3>1. bucket.lockedUntil = seconds + 1
      BY <1>0, <2>1 DEF Locked
    <3>2. Before' \in SUBSET Late
      BY <1>0, <1>1, <3>1 DEF Before, Late, Recent
    <3>3. Cardinality(Before') <= Cardinality(Late) /\ Cardinality(Before') \in Nat
      BY <1>0, <3>2, Countable, FS_Subset, FS_CardinalityType
    <3>4. Cardinality(Late) + Cardinality(Pending) <= Others /\ bucket.failures = {}
      BY <1>0, <2>1 DEF WhileLocked
    <3>5. Cardinality(Before') <= Others
      BY <1>0, <3>3, <3>4, Countable, SessionRecords
    <3>6. After' = {} /\ Recent(bucket.failures)' = {}
      BY <1>0, <1>1, <3>1, <3>4 DEF After, Recent, Times
    <3> QED
      BY <3>5, <3>6
  <2>2. CASE ~Locked
    <3>1. Cardinality(Before) <= Others /\ After = Recent(bucket.failures)
      BY <1>0, <2>2 DEF WhileOpen
    <3>2. Before' \in SUBSET Before
      BY <1>0, <1>1 DEF Before, Recent
    <3>3. Cardinality(Before') <= Cardinality(Before) /\ Cardinality(Before') \in Nat
      BY <1>0, <3>2, Countable, FS_Subset, FS_CardinalityType
    <3>4. Cardinality(Before') <= Others
      BY <1>0, <3>1, <3>3, Countable, SessionRecords
    <3>5. After' = {f \in After : f[1] + Window > seconds + 1}
      BY <1>0, <1>1 DEF After, Recent
    <3>6. Recent(bucket.failures)' = {f \in Recent(bucket.failures) : f[1] + Window > seconds + 1}
      BY <1>0, <1>1 DEF Recent
    <3> QED
      BY <3>1, <3>4, <3>5, <3>6
  <2> QED
    BY <2>1, <2>2
<1> QED
  BY <1>2, <1>7, <1>8 DEF Limiter

(* A verified login is no longer pending.                                  *)
LEMMA OneLess ==
    ASSUME SessionsInv, NEW h \in Login, VerifyPassword(h)
    PROVE  Cardinality(Pending') = Cardinality(Pending) - 1 /\ Cardinality(Pending) <= Others + 1
<1>0. login \in [Login -> LoginRecord] /\ login[h].step = "verify" /\ Times
  BY DEF VerifyPassword, SessionsInv, SessionsTypeOK
<1>1. \E s \in {"right", "failed"} : login' = [login EXCEPT ![h].step = s]
  BY DEF VerifyPassword
<1>2. Pending' = Pending \ {h} /\ h \in Pending /\ Pending \in SUBSET Login
  BY <1>0, <1>1 DEF Pending, LoginRecord
<1>3. Cardinality(Pending') = Cardinality(Pending) - 1
  BY <1>0, <1>2, Countable, FS_RemoveElement
<1>4. Cardinality(Pending) <= Cardinality(Login)
  BY <1>2, SessionRecords, FS_Subset
<1> QED
  BY <1>0, <1>3, <1>4, Countable, SessionRecords DEF Others

(* A wrong password is one more in the window, and if the bucket is open   *)
(* it is counted; one that locks leaves nothing late.                      *)
LEMMA LimiterVerify ==
    ASSUME SessionsInv, NEW h \in Login, VerifyPassword(h)
    PROVE  Limiter' /\ Cardinality(bucket'.failures) < MaxFailures
<1>0. /\ seconds \in Nat /\ seconds' = seconds
      /\ {Window, LockDuration, MaxFailures} \subseteq Nat /\ bucket.lockedUntil \in Nat
      /\ Window > 0 /\ Window <= LockDuration /\ MaxFailures # 0
      /\ Times /\ WhileLocked /\ WhileOpen
  BY SessionsConstants DEF VerifyPassword, SessionsInv, SessionsTypeOK, SessionsConstants
<1>1. CASE login[h].guess = login[h].row
  <2>1. bucket' = EmptyBucket /\ wrong' = {}
    BY <1>1 DEF VerifyPassword
  <2>2. ~Locked' /\ Before' = {} /\ After' = {} /\ Recent(bucket.failures)' = {}
    BY <1>0, <2>1 DEF Locked, Before, After, Recent
  <2>3. Times'
    BY <2>1, FS_EmptySet DEF Times
  <2>4. WhileLocked' /\ WhileOpen'
    BY <2>2, SessionRecords, FS_EmptySet DEF WhileLocked, WhileOpen, Others
  <2>5. Cardinality(bucket'.failures) = 0
    BY <2>1, FS_EmptySet
  <2> QED
    BY <1>0, <2>3, <2>4, <2>5 DEF Limiter
<1>2. CASE login[h].guess # login[h].row
  <2> DEFINE x == <<seconds, Cardinality(OfNow(wrong))>>
  <2>1. bucket' = RecordFailure /\ wrong' = Recent(wrong) \cup {x}
    BY <1>2 DEF VerifyPassword, With
  <2>2. x[1] = seconds
    OBVIOUS
  <2> HIDE DEF x
  <2>3. \A f \in wrong \cup bucket.failures : f[1] \in Nat /\ f[1] <= seconds
    BY <1>0, SessionsConstants
       DEF SessionsInv, SessionsTypeOK, SessionsConstants, Failure, Times
  <2>4. IsFiniteSet(wrong') /\ \A f \in wrong' : f[1] \in Nat /\ f[1] <= seconds
    <3>1. IsFiniteSet(Recent(wrong))
      BY <1>0, Countable
    <3>2. IsFiniteSet(wrong')
      BY <2>1, <3>1, OneMore
    <3> QED
      BY <1>0, <2>1, <2>2, <2>3, <3>2 DEF Recent
  <2>5. Recent(wrong)' = Recent(wrong) \cup {x}
    BY <1>0, <2>1, <2>2 DEF Recent
  <2>6. Cardinality(Recent(wrong)') <= Cardinality(Recent(wrong)) + 1
    BY <1>0, <2>5, Countable, OneMore
  <2>7. /\ Cardinality(Recent(wrong)) \in Nat /\ Cardinality(Pending) \in Nat /\ Others \in Nat
        /\ Cardinality(Recent(wrong)') \in Nat
    BY <1>0, <2>5, Countable, SessionRecords, OneMore
  <2>8. CASE Locked
    <3>1. bucket' = bucket /\ Locked'
      BY <1>0, <2>1, <2>8 DEF RecordFailure, Locked
    <3>2. Times'
      BY <1>0, <2>3, <2>4, <3>1 DEF Times
    <3>3. /\ bucket.failures = {}
          /\ Cardinality(Recent(wrong)) + Cardinality(Pending) <= MaxFailures + 2 * Others
          /\ Cardinality(Late) + Cardinality(Pending) <= Others
      BY <1>0, <2>8 DEF WhileLocked
    <3>4. Late' \in SUBSET (Late \cup {x})
      BY <2>1, <3>1 DEF Late, Recent
    <3>5. Cardinality(Late') <= Cardinality(Late) + 1 /\ Cardinality(Late') \in Nat
      <4>1. IsFiniteSet(Late \cup {x}) /\ Cardinality(Late \cup {x}) <= Cardinality(Late) + 1
        BY <1>0, Countable, OneMore
      <4>2. IsFiniteSet(Late') /\ Cardinality(Late') <= Cardinality(Late \cup {x})
        BY <3>4, <4>1, FS_Subset
      <4> QED
        BY <1>0, <4>1, <4>2, Countable, FS_CardinalityType
    <3>6. WhileLocked'
      BY <1>0, <2>6, <2>7, <3>1, <3>3, <3>5, OneLess, Countable DEF WhileLocked, Others
    <3>7. WhileOpen'
      BY <3>1 DEF WhileOpen
    <3>8. Cardinality(bucket'.failures) < MaxFailures
      BY <3>1 DEF SessionsInv, SessionsTypeOK
    <3> QED
      BY <3>2, <3>6, <3>7, <3>8 DEF Limiter
  <2>9. CASE ~Locked /\ Cardinality(With(bucket.failures)) >= MaxFailures
    <3>1. bucket' = [failures |-> {}, lockedUntil |-> seconds + LockDuration]
      BY <2>1, <2>9 DEF RecordFailure
    <3>2. Times' /\ Cardinality(bucket'.failures) = 0
      BY <1>0, <2>4, <3>1, FS_EmptySet DEF Times
    <3>3. Late' = {}
      BY <1>0, <2>4, <3>1 DEF Late
    <3>4. Cardinality(Recent(wrong)) <= Others + MaxFailures - 1
      BY <2>9, OpenBound
    <3>5. Cardinality(Recent(wrong)') + Cardinality(Pending') <= MaxFailures + 2 * Others
      BY <1>0, <2>6, <2>7, <3>4, OneLess
    <3>6. Cardinality(Late') + Cardinality(Pending') <= Others
      BY <2>7, <3>3, OneLess, FS_EmptySet
    <3>7. Locked'
      BY <1>0, <3>1 DEF Locked
    <3>8. WhileLocked' /\ WhileOpen'
      BY <3>1, <3>5, <3>6, <3>7 DEF WhileLocked, WhileOpen, Others
    <3> QED
      BY <1>0, <3>2, <3>8 DEF Limiter
  <2>10. CASE ~Locked /\ ~(Cardinality(With(bucket.failures)) >= MaxFailures)
    <3>1. bucket' = [bucket EXCEPT !.failures = With(bucket.failures)]
      BY <2>1, <2>10 DEF RecordFailure
    <3>2. bucket'.failures = With(bucket.failures) /\ bucket'.lockedUntil = bucket.lockedUntil
      BY <3>1 DEF SessionsInv, SessionsTypeOK
    <3>3. bucket.lockedUntil <= seconds /\ ~Locked'
      BY <1>0, <2>10, <3>2 DEF Locked
    <3>4. Cardinality(Before) <= Others /\ After = Recent(bucket.failures)
      BY <1>0, <2>10 DEF WhileOpen
    <3>5. OfNow(wrong) = {f \in After : f[1] = seconds}
      BY <1>0, <3>3 DEF OfNow, After, Recent
    <3>6. OfNow(bucket.failures) = {f \in Recent(bucket.failures) : f[1] = seconds}
      BY <1>0, <3>3 DEF OfNow, Recent
    <3>7. With(bucket.failures) = Recent(bucket.failures) \cup {x}
      BY <3>4, <3>5, <3>6 DEF With, x
    <3>8. Recent(bucket.failures)' = Recent(bucket.failures) \cup {x}
      BY <1>0, <2>2, <3>2, <3>7 DEF Recent
    <3>9. After' = After \cup {x} /\ Before' = Before
      BY <1>0, <2>1, <2>2, <2>5, <3>2, <3>3 DEF After, Before, Recent
    <3>10. WhileLocked' /\ WhileOpen'
      BY <3>3, <3>4, <3>8, <3>9 DEF WhileLocked, WhileOpen, Others
    <3>11. IsFiniteSet(With(bucket.failures)) /\ Cardinality(With(bucket.failures)) \in Nat
      BY <1>0, <3>7, Countable, OneMore
    <3>12. \A f \in With(bucket.failures) : f[1] <= seconds
      BY <1>0, <2>2, <2>3, <3>7 DEF Recent
    <3>13. Times'
      BY <1>0, <2>4, <3>2, <3>11, <3>12 DEF Times
    <3>14. Cardinality(bucket'.failures) < MaxFailures
      BY <1>0, <2>10, <3>2, <3>11
    <3> QED
      BY <3>10, <3>13, <3>14 DEF Limiter
  <2> QED
    BY <2>8, <2>9, <2>10
<1> QED
  BY <1>1, <1>2

(* Every step of a login, of a change, of a session and of the clock keeps *)
(* the invariant.                                                          *)
LEMMA SessionsKept == SessionsInv /\ [SessionsNext]_sessionsVars => SessionsInv'
<1> SUFFICES ASSUME SessionsInv, [SessionsNext]_sessionsVars PROVE SessionsInv'
  OBVIOUS
<1> USE SessionRecords
<1>t. /\ SessionsTypeOK /\ Limiter /\ RowHeld /\ PasswordKept
      /\ seconds \in Nat /\ MaxSeconds \in Nat /\ SessionTTL \in Nat /\ guesses \in Nat /\ MaxGuess \in Nat
  BY SessionsConstants DEF SessionsInv, SessionsTypeOK, SessionsConstants, Limiter
<1> SUFFICES SessionsTypeOK' /\ Limiter' /\ RowHeld' /\ PasswordKept'
  BY DEF SessionsInv, Limiter
<1>1. ASSUME NEW h \in Login, NEW g \in Password, StartLogin(h, g)
      PROVE  SessionsTypeOK' /\ Limiter' /\ RowHeld' /\ PasswordKept'
  <2>1. login' \in [Login -> LoginRecord]
    BY <1>1, <1>t DEF StartLogin, SessionsTypeOK, LoginRecord
  <2>2. SessionsTypeOK'
    BY <1>1, <1>t, <2>1 DEF StartLogin, SessionsTypeOK
  <2>3. Limiter'
    BY <1>1, LimiterStart
  <2>4. RowHeld' /\ PasswordKept'
    BY <1>1, <1>t DEF StartLogin, SessionsTypeOK, LoginRecord, RowHeld, Holds, PasswordKept
  <2> QED
    BY <2>2, <2>3, <2>4
<1>2. ASSUME NEW h \in Login, ReadAdmin(h)
      PROVE  SessionsTypeOK' /\ Limiter' /\ RowHeld' /\ PasswordKept'
  <2>1. login' \in [Login -> LoginRecord]
    BY <1>2, <1>t DEF ReadAdmin, SessionsTypeOK, LoginRecord
  <2>2. SessionsTypeOK'
    BY <1>2, <1>t, <2>1 DEF ReadAdmin, SessionsTypeOK
  <2>3. Pending' = Pending
    BY <1>2, <1>t DEF ReadAdmin, SessionsTypeOK, LoginRecord, Pending
  <2>4. Limiter'
    BY <1>2, <1>t, <2>3, LimiterUntouched DEF ReadAdmin
  <2>5. RowHeld' /\ PasswordKept'
    BY <1>2, <1>t DEF ReadAdmin, SessionsTypeOK, LoginRecord, RowHeld, Holds, PasswordKept
  <2> QED
    BY <2>2, <2>4, <2>5
<1>3. ASSUME NEW h \in Login, VerifyPassword(h)
      PROVE  SessionsTypeOK' /\ Limiter' /\ RowHeld' /\ PasswordKept'
  <2>1. PICK s \in {"right", "failed"} : login' = [login EXCEPT ![h].step = s]
    BY <1>3 DEF VerifyPassword
  <2>2. login' \in [Login -> LoginRecord]
    BY <1>t, <2>1 DEF SessionsTypeOK, LoginRecord
  <2>3. \A failures \in SUBSET Failure : IsFiniteSet(failures) => With(failures) \in SUBSET Failure
    <3>1. ASSUME NEW failures \in SUBSET Failure, IsFiniteSet(failures)
          PROVE  With(failures) \in SUBSET Failure
      <4>1. OfNow(failures) \in SUBSET failures /\ Recent(failures) \in SUBSET failures
        BY DEF OfNow, Recent
      <4>2. Cardinality(OfNow(failures)) \in Nat
        BY <3>1, <4>1, FS_Subset, FS_CardinalityType
      <4> QED
        BY <1>t, <4>1, <4>2 DEF With, Failure, SessionsTypeOK
    <3> QED
      BY <3>1
  <2>4. wrong' \in SUBSET Failure /\ bucket' \in [failures : SUBSET Failure, lockedUntil : Nat]
    <3>1. LockDuration \in Nat
      BY SessionsConstants DEF SessionsConstants
    <3>2. IsFiniteSet(wrong) /\ IsFiniteSet(bucket.failures)
      BY <1>t DEF Limiter, Times
    <3>3. With(wrong) \in SUBSET Failure /\ With(bucket.failures) \in SUBSET Failure
      BY <1>t, <2>3, <3>2 DEF SessionsTypeOK
    <3> QED
      BY <1>3, <1>t, <3>1, <3>3 DEF VerifyPassword, RecordFailure, SessionsTypeOK
  <2>5. Limiter' /\ Cardinality(bucket'.failures) < MaxFailures
    BY <1>3, LimiterVerify
  <2>6. SessionsTypeOK'
    BY <1>3, <1>t, <2>2, <2>4, <2>5 DEF VerifyPassword, SessionsTypeOK
  <2>7. RowHeld' /\ PasswordKept'
    BY <1>3, <1>t, <2>1
       DEF VerifyPassword, SessionsTypeOK, LoginRecord, RowHeld, Holds, PasswordKept
  <2> QED
    BY <2>5, <2>6, <2>7
<1>4. ASSUME NEW h \in Login, WriteAdmin(h)
      PROVE  SessionsTypeOK' /\ Limiter' /\ RowHeld' /\ PasswordKept'
  <2>1. login' \in [Login -> LoginRecord] /\ adminRow' \in Password
    BY <1>4, <1>t DEF WriteAdmin, UpdateAdmin, SessionsTypeOK, LoginRecord
  <2>2. SessionsTypeOK'
    BY <1>4, <1>t, <2>1 DEF WriteAdmin, SessionsTypeOK
  <2>3. Pending' = Pending
    BY <1>4, <1>t DEF WriteAdmin, SessionsTypeOK, LoginRecord, Pending
  <2>4. Limiter'
    BY <1>4, <1>t, <2>3, LimiterUntouched DEF WriteAdmin
  <2>5. ~raced => adminRow' = adminRow
    BY <1>4, <1>t DEF WriteAdmin, UpdateAdmin, RowHeld, Holds
  <2>6. RowHeld' /\ PasswordKept'
    BY <1>4, <1>t, <2>5 DEF WriteAdmin, SessionsTypeOK, LoginRecord, RowHeld, Holds, PasswordKept
  <2> QED
    BY <2>2, <2>4, <2>6
<1>5. ASSUME NEW h \in Login, NEW s \in Session, CreateSession(h, s)
      PROVE  SessionsTypeOK' /\ Limiter' /\ RowHeld' /\ PasswordKept'
  <2>1. login' \in [Login -> LoginRecord] /\ session' \in [Session -> SessionRow]
    BY <1>5, <1>t DEF CreateSession, SessionsTypeOK, LoginRecord, SessionRow
  <2>2. SessionsTypeOK'
    BY <1>5, <1>t, <2>1 DEF CreateSession, SessionsTypeOK
  <2>3. Pending' = Pending
    BY <1>5, <1>t DEF CreateSession, SessionsTypeOK, LoginRecord, Pending
  <2>4. Limiter'
    BY <1>5, <1>t, <2>3, LimiterUntouched DEF CreateSession
  <2>5. RowHeld' /\ PasswordKept'
    BY <1>5, <1>t DEF CreateSession, SessionsTypeOK, LoginRecord, RowHeld, Holds, PasswordKept
  <2> QED
    BY <2>2, <2>4, <2>5
<1>6. ASSUME NEW s \in Session, UseExpired(s) \/ Logout(s)
      PROVE  SessionsTypeOK' /\ Limiter' /\ RowHeld' /\ PasswordKept'
  <2>1. UNCHANGED <<seconds, adminRow, bucket, login, change, guesses, wrong, password, raced>>
    BY <1>6 DEF UseExpired, Logout
  <2>2. session' \in [Session -> SessionRow]
    BY <1>6, <1>t DEF UseExpired, Logout, RevokeSession, SessionsTypeOK, SessionRow
  <2>3. SessionsTypeOK'
    BY <1>t, <2>1, <2>2 DEF SessionsTypeOK
  <2>4. Limiter'
    BY <1>t, <2>1, LimiterUntouched DEF Pending
  <2>5. RowHeld' /\ PasswordKept'
    BY <1>t, <2>1 DEF RowHeld, Holds, PasswordKept
  <2> QED
    BY <2>3, <2>4, <2>5
<1>7. ASSUME DeleteExpiredSessions
      PROVE  SessionsTypeOK' /\ Limiter' /\ RowHeld' /\ PasswordKept'
  <2>1. UNCHANGED <<seconds, adminRow, bucket, login, change, guesses, wrong, password, raced>>
    BY <1>7 DEF DeleteExpiredSessions
  <2>2. session' \in [Session -> SessionRow]
    BY <1>7, <1>t DEF DeleteExpiredSessions, SessionsTypeOK, SessionRow
  <2>3. SessionsTypeOK'
    BY <1>t, <2>1, <2>2 DEF SessionsTypeOK
  <2>4. Limiter'
    BY <1>t, <2>1, LimiterUntouched DEF Pending
  <2>5. RowHeld' /\ PasswordKept'
    BY <1>t, <2>1 DEF RowHeld, Holds, PasswordKept
  <2> QED
    BY <2>3, <2>4, <2>5
<1>8. ASSUME NEW h \in Change, NEW s \in Session, NEW p \in Password, StartChange(h, s, p)
      PROVE  SessionsTypeOK' /\ Limiter' /\ RowHeld' /\ PasswordKept'
  <2>1. UNCHANGED <<seconds, adminRow, bucket, login, session, guesses, wrong, password, raced>>
    BY <1>8 DEF StartChange
  <2>2. change' \in [Change -> ChangeRecord]
    BY <1>8, <1>t DEF StartChange, SessionsTypeOK, ChangeRecord
  <2>3. SessionsTypeOK'
    BY <1>t, <2>1, <2>2 DEF SessionsTypeOK
  <2>4. Limiter'
    BY <1>t, <2>1, LimiterUntouched DEF Pending
  <2>5. RowHeld' /\ PasswordKept'
    BY <1>t, <2>1 DEF RowHeld, Holds, PasswordKept
  <2> QED
    BY <2>3, <2>4, <2>5
<1>9. ASSUME NEW h \in Change, ChangePassword(h)
      PROVE  SessionsTypeOK' /\ Limiter' /\ RowHeld' /\ PasswordKept'
  <2>1. /\ UNCHANGED <<seconds, bucket, login, session, guesses, wrong>>
        /\ adminRow' = change[h].new /\ password' = change[h].new
        /\ raced' \in BOOLEAN /\ (~raced' => \A l \in Login : ~Holds(l))
    BY <1>9, <1>t DEF ChangePassword, UpdateAdmin, SessionsTypeOK
  <2>2. change' \in [Change -> ChangeRecord] /\ change[h].new \in Password
    BY <1>9, <1>t DEF ChangePassword, SessionsTypeOK, ChangeRecord
  <2>3. SessionsTypeOK'
    BY <1>t, <2>1, <2>2 DEF SessionsTypeOK
  <2>4. Limiter'
    BY <1>t, <2>1, LimiterUntouched DEF Pending
  <2>5. RowHeld' /\ PasswordKept'
    BY <2>1 DEF RowHeld, Holds, PasswordKept
  <2> QED
    BY <2>3, <2>4, <2>5
<1>10. ASSUME SecondPasses
       PROVE  SessionsTypeOK' /\ Limiter' /\ RowHeld' /\ PasswordKept'
  <2>1. /\ UNCHANGED <<adminRow, bucket, login, change, session, guesses, wrong, password, raced>>
        /\ seconds' \in 0..MaxSeconds
    BY <1>10, <1>t DEF SecondPasses
  <2>2. SessionsTypeOK'
    BY <1>t, <2>1 DEF SessionsTypeOK
  <2>3. Limiter'
    BY <1>10, LimiterTime
  <2>4. RowHeld' /\ PasswordKept'
    BY <1>t, <2>1 DEF RowHeld, Holds, PasswordKept
  <2> QED
    BY <2>2, <2>3, <2>4
<1>11. ASSUME UNCHANGED sessionsVars
       PROVE  SessionsTypeOK' /\ Limiter' /\ RowHeld' /\ PasswordKept'
  <2>1. UNCHANGED <<seconds, adminRow, bucket, login, change, session, guesses, wrong, password, raced>>
    BY <1>11 DEF sessionsVars
  <2>2. SessionsTypeOK' /\ RowHeld' /\ PasswordKept'
    BY <1>t, <2>1 DEF SessionsTypeOK, RowHeld, Holds, PasswordKept
  <2>3. Limiter'
    BY <1>t, <2>1, LimiterUntouched DEF Pending
  <2> QED
    BY <2>2, <2>3
<1> QED
  BY <1>1, <1>2, <1>3, <1>4, <1>5, <1>6, <1>7, <1>8, <1>9, <1>10, <1>11 DEF SessionsNext

(* However many logins and changes overlap, the lock-out bounds the wrong  *)
(* passwords that are verified in any window, and a changed password is    *)
(* the password unless a login held the row when it was written.           *)
THEOREM LoginsGuardedHolds == SessionsSpec => []LoginsGuarded
<1>1. SessionsSpec => []SessionsInv
  BY SessionsStart, SessionsKept, PTL DEF SessionsSpec
<1> QED
  BY <1>1, BoundFollows, PTL

-----------------------------------------------------------------------------
(* The notification limiter.                                               *)

(* A bucket of capacity c that will have a token from the tick on.         *)
Ready(b, c, on) ==
    \/ b.units >= Minute
    \/ on >= b.last /\ b.units + (on - b.last) * c >= Minute

(* Whoever was told to wait, and from whose buckets nothing was taken      *)
(* since, will have a token by then.                                       *)
PromiseKept ==
    \A s \in Requester : waited[s] # -1 =>
        /\ buckets[s] # NoBucket => Ready(buckets[s], PerToken, waited[s])
        /\ Ready(global, Global, waited[s])

(* No bucket was refilled in the future.                                   *)
RefilledBefore ==
    /\ global.last <= tick
    /\ \A s \in Requester : buckets[s].last <= tick

NotifyInv == NotifyTypeOK /\ RefilledBefore /\ PromiseKept

(* The smaller and the larger of two numbers.                              *)
LEMMA OfTwo ==
    ASSUME NEW a \in Int, NEW b \in Int
    PROVE  /\ Min({a, b}) = IF a <= b THEN a ELSE b
           /\ Max({a, b}) = IF a >= b THEN a ELSE b
<1>1. \A x \in {a, b} : (\A y \in {a, b} : x <= y) => x = IF a <= b THEN a ELSE b
  OBVIOUS
<1>2. \A x \in {a, b} : (\A y \in {a, b} : x >= y) => x = IF a >= b THEN a ELSE b
  OBVIOUS
<1>3. \E x \in {a, b} : \A y \in {a, b} : x <= y
  OBVIOUS
<1>4. \E x \in {a, b} : \A y \in {a, b} : x >= y
  OBVIOUS
<1>5. Min({a, b}) \in {a, b} /\ \A y \in {a, b} : Min({a, b}) <= y
  BY <1>3 DEF Min
<1>6. Max({a, b}) \in {a, b} /\ \A y \in {a, b} : Max({a, b}) >= y
  BY <1>4 DEF Max
<1> QED
  BY <1>1, <1>2, <1>5, <1>6

(* What is gained over two stretches of time is gained over both at once,  *)
(* and more time gains no less.                                            *)
LEMMA Gains ==
    ASSUME NEW c \in Nat, NEW a \in Int, NEW b \in Int, NEW d \in Int
    PROVE  /\ (b - a) * c + (d - b) * c = (d - a) * c
           /\ (b - a) * c \in Int
           /\ a <= b => (b - a) * c >= 0
<1>1. (b - a) * c + (d - b) * c = ((b - a) + (d - b)) * c
  OBVIOUS
<1>2. (b - a) + (d - b) = d - a
  OBVIOUS
<1> QED
  BY <1>1, <1>2

(* The wait is long enough to gain the units it is for.                    *)
LEMMA RoundedUp ==
    ASSUME NEW c \in Nat \ {0}, NEW x \in Int
    PROVE  (x + c - 1) \div c \in Int /\ ((x + c - 1) \div c) * c >= x
<1> DEFINE y == x + c - 1
<1> DEFINE q == y \div c
<1>1. q \in Int /\ y % c \in 0 .. c - 1 /\ y = c * q + (y % c)
  OBVIOUS
<1> QED
  BY <1>1

(* The constants the proofs speak of.                                      *)
LEMMA NotifyNumbers ==
    /\ {PerToken, Global, Minute, MaxTick} \subseteq Nat \ {0}
    /\ PerToken \in Nat \ {0} /\ Global \in Nat \ {0}
    /\ Minute \in Nat \ {0} /\ MaxTick \in Nat
    /\ Tick \subseteq Nat
  BY NotifyConstants DEF Tick

(* What a refilled bucket holds: no more than its capacity, what it was    *)
(* promised to hold, and a token once the time promised has come.          *)
LEMMA Refilled ==
    ASSUME tick \in Tick, NEW c \in Nat \ {0},
           NEW b \in Bucket \cup {NoBucket}, b.last <= tick
    PROVE  /\ refill(b, c) \in Bucket
           /\ refill(b, c).last = tick
           /\ refill(b, c) # NoBucket
           /\ b = NoBucket => HasToken(refill(b, c))
           /\ \A on \in Nat : (b # NoBucket => Ready(b, c, on)) =>
                 /\ Ready(refill(b, c), c, on)
                 /\ on <= tick => HasToken(refill(b, c))
<1> DEFINE gained == (tick - b.last) * c
           new == refill(b, c)
<1>1. /\ tick \in Nat /\ Minute \in Nat \ {0}
      /\ b.last \in Nat /\ b.units \in Int
      /\ b # NoBucket => b.units \in Nat
  <2>1. tick \in Nat /\ Minute \in Nat \ {0}
    BY NotifyNumbers
  <2>2. CASE b \in Bucket
    BY <2>1, <2>2, NotifyNumbers DEF Bucket, Tick
  <2>3. CASE b = NoBucket
    BY <2>1, <2>3 DEF NoBucket
  <2> QED
    BY <2>2, <2>3
<1>2. c * Minute \in Nat /\ c * Minute >= Minute
  BY <1>1
<1>3. gained \in Nat
  BY <1>1, Gains
<1>4. new = [units |-> IF b = NoBucket THEN c * Minute
                       ELSE IF b.units + gained <= c * Minute THEN b.units + gained ELSE c * Minute,
             last |-> tick]
  BY <1>1, <1>2, <1>3, OfTwo DEF refill
<1>5. /\ new \in Bucket /\ new.last = tick /\ new.units \in Nat
      /\ b = NoBucket => new.units = c * Minute
      /\ b # NoBucket => new.units = b.units + gained \/ new.units = c * Minute
  BY <1>1, <1>2, <1>3, <1>4 DEF Bucket
<1>6. new # NoBucket
  BY <1>5 DEF NoBucket
<1>7. ASSUME NEW on \in Nat, b # NoBucket => Ready(b, c, on)
      PROVE  Ready(new, c, on) /\ (on <= tick => HasToken(new))
  <2>1. CASE new.units = c * Minute
    BY <1>2, <2>1 DEF Ready, HasToken
  <2>2. CASE b # NoBucket /\ new.units = b.units + gained
    <3>1. CASE b.units >= Minute
      BY <1>1, <1>3, <2>2, <3>1 DEF Ready, HasToken
    <3>2. CASE on >= b.last /\ b.units + (on - b.last) * c >= Minute
      <4>1. CASE on <= tick
        <5>1. (on - b.last) * c + (tick - on) * c = gained /\ (tick - on) * c >= 0
              /\ (on - b.last) * c \in Int /\ (tick - on) * c \in Int
          BY <1>1, <4>1, Gains
        <5> HIDE DEF gained, new
        <5>2. new.units >= Minute
          BY <1>1, <1>3, <2>2, <3>2, <5>1
        <5> QED
          BY <5>2 DEF Ready, HasToken
      <4>2. CASE on > tick
        <5>1. gained + (on - tick) * c = (on - b.last) * c
              /\ (on - b.last) * c \in Int /\ (on - tick) * c \in Int
          BY <1>1, Gains
        <5> HIDE DEF gained, new
        <5>2. new.units + (on - tick) * c >= Minute
          BY <1>1, <1>3, <2>2, <3>2, <5>1
        <5> QED
          BY <1>1, <1>5, <4>2, <5>2 DEF Ready
      <4> QED
        BY <1>1, <4>1, <4>2
    <3> QED
      BY <1>7, <2>2, <3>1, <3>2 DEF Ready
  <2> QED
    BY <1>5, <2>1, <2>2
<1>8. b = NoBucket => HasToken(new)
  BY <1>2, <1>5 DEF HasToken
<1> QED
  BY <1>5, <1>6, <1>7, <1>8

(* The wait told for a bucket without a token is long enough.              *)
LEMMA Waits ==
    ASSUME tick \in Tick, NEW c \in Nat \ {0}, NEW b \in Bucket, b.last = tick,
           NEW w \in Nat, w >= WaitOf(b, c)
    PROVE  Ready(b, c, tick + w)
<1>1. CASE HasToken(b)
  BY <1>1 DEF HasToken, Ready
<1>2. CASE ~HasToken(b)
  <2> DEFINE x == Minute - b.units
             r == (x + c - 1) \div c
  <2>1. /\ x \in Int /\ b.units \in Nat /\ tick \in Nat /\ Minute \in Nat
        /\ b # NoBucket
    BY NotifyNumbers DEF Bucket, NoBucket
  <2>2. r \in Int /\ r * c >= x
    BY <2>1, RoundedUp
  <2>3. retryAfterSeconds(b, c) = Max({r, 1})
    BY DEF retryAfterSeconds
  <2> HIDE DEF r
  <2>4. r \in Int /\ 1 \in Int => Max({r, 1}) = IF r >= 1 THEN r ELSE 1
    BY OfTwo
  <2>5. w >= r
    BY <1>2, <2>1, <2>2, <2>3, <2>4 DEF WaitOf
  <2>6. (w - r) * c >= 0 /\ (w - r) * c \in Int
    BY <2>2, <2>5, Gains
  <2>7. (r - 0) * c + (w - r) * c = (w - 0) * c
    BY <2>2, Gains
  <2>8. w * c >= x
    BY <2>1, <2>2, <2>6, <2>7
  <2>9. (tick + w) - b.last = w
    BY <2>1
  <2> QED
    BY <2>1, <2>8, <2>9 DEF Ready
<1> QED
  BY <1>1, <1>2


(* A wait is a positive number of ticks, if there is a wait.               *)
LEMMA WaitNumbers ==
    ASSUME NEW c \in Nat \ {0}, NEW b \in Bucket \cup {NoBucket}
    PROVE  /\ b \in Bucket => retryAfterSeconds(b, c) \in Nat
           /\ WaitOf(b, c) \in Nat
<1>1. ASSUME b \in Bucket PROVE retryAfterSeconds(b, c) \in Nat
  <2> DEFINE x == Minute - b.units
             r == (x + c - 1) \div c
  <2>1. x \in Int
    BY <1>1, NotifyNumbers DEF Bucket
  <2>2. r \in Int /\ 1 \in Int
    BY <2>1, RoundedUp
  <2>3. retryAfterSeconds(b, c) = Max({r, 1})
    BY DEF retryAfterSeconds
  <2> HIDE DEF r
  <2>4. Max({r, 1}) = IF r >= 1 THEN r ELSE 1
    BY <2>2, OfTwo
  <2> QED
    BY <2>2, <2>3, <2>4
<1> QED
  BY <1>1 DEF WaitOf

(* A token taken from a bucket that has one leaves a bucket.               *)
LEMMA Taken ==
    ASSUME NEW b \in Bucket, HasToken(b)
    PROVE  Take(b) \in Bucket /\ Take(b).last = b.last
<1>1. b.units - Minute \in Nat
  BY NotifyNumbers DEF Bucket, HasToken
<1> QED
  BY <1>1 DEF Take, Bucket

(* At the start nobody was promised anything.                              *)
LEMMA NotifyStart == NotifyInit => NotifyInv
<1> SUFFICES ASSUME NotifyInit PROVE NotifyInv
  OBVIOUS
<1>1. /\ 0 \in Tick /\ Global * Minute \in Nat /\ NoBucket.last = 0
      /\ [units |-> Global * Minute, last |-> 0] \in Bucket
  BY NotifyNumbers DEF Tick, NoBucket, Bucket
<1>2. NotifyTypeOK
  BY <1>1 DEF NotifyInit, NotifyTypeOK
<1>3. RefilledBefore
  BY <1>1, NotifyNumbers DEF NotifyInit, RefilledBefore, Tick
<1>4. PromiseKept
  BY DEF NotifyInit, PromiseKept
<1> QED
  BY <1>2, <1>3, <1>4 DEF NotifyInv

(* Steps that only refill buckets, or drop them, keep every promise.       *)
LEMMA RefillKeeps ==
    ASSUME NotifyInv, NotifyTypeOK', UNCHANGED <<tick, waited>>,
           global' = global \/ global' = refill(global, Global),
           \A s \in Requester : \/ buckets'[s] = buckets[s]
                                \/ buckets'[s] = NoBucket
                                \/ buckets'[s] = refill(buckets[s], PerToken)
    PROVE  NotifyInv'
<1>1. /\ tick \in Tick /\ tick \in Nat /\ global \in Bucket /\ global # NoBucket
      /\ \A s \in Requester : buckets[s] \in Bucket \cup {NoBucket} /\ waited[s] \in Nat \cup {-1}
  BY NotifyNumbers DEF NotifyInv, NotifyTypeOK, Bucket, NoBucket
<1>2. /\ global'.last <= tick
      /\ \A on \in Nat : Ready(global, Global, on) => Ready(global', Global, on)
  BY <1>1, Refilled, NotifyNumbers DEF NotifyInv, RefilledBefore
<1>3. ASSUME NEW s \in Requester
      PROVE  /\ buckets'[s].last <= tick
             /\ \A on \in Nat : (buckets[s] # NoBucket => Ready(buckets[s], PerToken, on))
                    => (buckets'[s] # NoBucket => Ready(buckets'[s], PerToken, on))
  <2>1. NoBucket.last <= tick
    BY <1>1 DEF NoBucket
  <2> QED
    BY <1>1, <2>1, Refilled, NotifyNumbers DEF NotifyInv, RefilledBefore
<1>4. RefilledBefore'
  BY <1>2, <1>3 DEF RefilledBefore
<1>5. PromiseKept'
  <2> SUFFICES ASSUME NEW s \in Requester, waited[s] # -1
               PROVE  /\ buckets'[s] # NoBucket => Ready(buckets'[s], PerToken, waited[s])
                      /\ Ready(global', Global, waited[s])
    BY DEF PromiseKept, Ready
  <2>1. waited[s] \in Nat
    BY <1>1
  <2>2. /\ buckets[s] # NoBucket => Ready(buckets[s], PerToken, waited[s])
        /\ Ready(global, Global, waited[s])
    BY DEF NotifyInv, PromiseKept
  <2> QED
    BY <1>2, <1>3, <2>1, <2>2
<1> QED
  BY <1>4, <1>5 DEF NotifyInv

(* Taking a token breaks every promise, so nothing is owed.                *)
LEMMA AcceptKeeps ==
    ASSUME NotifyInv, UNCHANGED <<tick, limited>>,
           NEW senders, Accept(senders),
           HasToken(refill(global, Global)), global' = Take(refill(global, Global)),
           buckets' \in [Requester -> Bucket \cup {NoBucket}],
           \A s \in Requester : buckets'[s] = buckets[s] \/ buckets'[s].last = tick
    PROVE  NotifyInv'
<1>1. /\ tick \in Tick /\ tick \in Nat /\ global \in Bucket
      /\ accepted \in [Requester \cup {Everyone} -> [Tick -> Nat]]
  BY NotifyNumbers DEF NotifyInv, NotifyTypeOK
<1>2. global' \in Bucket /\ global'.last = tick
  BY <1>1, Refilled, Taken, NotifyNumbers DEF NotifyInv, RefilledBefore
<1>3. waited' = [s \in Requester |-> -1]
  BY DEF Accept
<1>4. accepted' \in [Requester \cup {Everyone} -> [Tick -> Nat]]
  BY <1>1 DEF Accept
<1>5. NotifyTypeOK'
  BY <1>1, <1>2, <1>3, <1>4 DEF NotifyInv, NotifyTypeOK
<1>6. RefilledBefore'
  BY <1>1, <1>2 DEF NotifyInv, RefilledBefore
<1>7. PromiseKept'
  BY <1>3 DEF PromiseKept
<1> QED
  BY <1>5, <1>6, <1>7 DEF NotifyInv

(* A request takes a token from both buckets, or is told to wait.          *)
LEMMA TryAcquireKeeps == ASSUME NEW t \in Requester, NotifyInv, TryAcquire(t) PROVE NotifyInv'
<1> DEFINE b == refill(buckets[t], PerToken)
           g == refill(global, Global)
<1>1. /\ tick \in Tick /\ global \in Bucket
      /\ buckets \in [Requester -> Bucket \cup {NoBucket}]
      /\ limited \in [Requester -> Nat]
  BY DEF NotifyInv, NotifyTypeOK
<1>2. b \in Bucket /\ b.last = tick /\ g \in Bucket
  BY <1>1, Refilled, NotifyNumbers DEF NotifyInv, RefilledBefore
<1>3. CASE /\ HasToken(b) /\ HasToken(g)
           /\ buckets' = [buckets EXCEPT ![t] = Take(b)]
           /\ global' = Take(g)
           /\ Accept({t, Everyone})
           /\ UNCHANGED <<limited, tick>>
  <2>1. Take(b) \in Bucket /\ Take(b).last = tick
    BY <1>2, <1>3, Taken
  <2>2. /\ buckets' \in [Requester -> Bucket \cup {NoBucket}]
        /\ \A s \in Requester : buckets'[s] = buckets[s] \/ buckets'[s].last = tick
    BY <1>1, <1>3, <2>1
  <2> QED
    BY <1>3, <2>2, AcceptKeeps
<1>4. CASE /\ buckets' = [buckets EXCEPT ![t] = b]
           /\ \/ limited' = [limited EXCEPT ![t] = retryAfterSeconds(b, PerToken)]
              \/ limited' = [limited EXCEPT ![t] = retryAfterSeconds(g, Global)]
           /\ global' = global \/ global' = g
           /\ UNCHANGED <<waited, accepted, tick>>
  <2>1. retryAfterSeconds(b, PerToken) \in Nat /\ retryAfterSeconds(g, Global) \in Nat
    BY <1>2, WaitNumbers, NotifyNumbers
  <2>2. limited' \in [Requester -> Nat]
    BY <1>1, <1>4, <2>1
  <2>3. /\ buckets' \in [Requester -> Bucket \cup {NoBucket}]
        /\ \A s \in Requester : buckets'[s] = buckets[s] \/ buckets'[s] = refill(buckets[s], PerToken)
    BY <1>1, <1>2, <1>4
  <2>4. NotifyTypeOK'
    BY <1>1, <1>2, <1>4, <2>2, <2>3 DEF NotifyInv, NotifyTypeOK
  <2> QED
    BY <1>4, <2>3, <2>4, RefillKeeps
<1> QED
  BY <1>3, <1>4 DEF TryAcquire

(* The wait told is long enough for both buckets.                          *)
LEMMA RetryAfterKeeps == ASSUME NEW t \in Requester, NotifyInv, RetryAfter(t) PROVE NotifyInv'
<1> DEFINE b == IF buckets[t] = NoBucket THEN NoBucket ELSE refill(buckets[t], PerToken)
           g == refill(global, Global)
           w == Max({limited[t], LongestWait(b, g)})
<1>1. /\ tick \in Tick /\ tick \in Nat /\ global \in Bucket /\ global # NoBucket
      /\ buckets \in [Requester -> Bucket \cup {NoBucket}]
      /\ limited \in [Requester -> Nat] /\ waited \in [Requester -> Nat \cup {-1}]
  BY NotifyNumbers DEF NotifyInv, NotifyTypeOK, Bucket, NoBucket
<1>2. /\ buckets' = [buckets EXCEPT ![t] = b]
      /\ global' = g
      /\ waited' = [waited EXCEPT ![t] = tick + w]
      /\ limited' = [limited EXCEPT ![t] = 0]
      /\ UNCHANGED <<tick, accepted>>
  BY DEF RetryAfter
<1>3. /\ b \in Bucket \cup {NoBucket}
      /\ b # NoBucket => b \in Bucket /\ b.last = tick
      /\ g \in Bucket /\ g.last = tick
  BY <1>1, Refilled, NotifyNumbers DEF NotifyInv, RefilledBefore
<1>4. w \in Nat /\ w >= WaitOf(b, PerToken) /\ w >= WaitOf(g, Global)
  <2> DEFINE x == WaitOf(b, PerToken)
             y == WaitOf(g, Global)
             z == LongestWait(b, g)
  <2>1. x \in Nat /\ y \in Nat /\ limited[t] \in Nat
    BY <1>1, <1>3, WaitNumbers, NotifyNumbers
  <2>2. z = Max({x, y})
    BY DEF LongestWait
  <2> HIDE DEF x, y
  <2>i. x \in Int /\ y \in Int /\ limited[t] \in Int
    BY <2>1
  <2>3. Max({x, y}) = IF x >= y THEN x ELSE y
    BY <2>i, OfTwo
  <2> HIDE DEF z
  <2>4. z \in Nat /\ z >= x /\ z >= y
    BY <2>1, <2>2, <2>3
  <2>j. z \in Int
    BY <2>4
  <2>5. Max({limited[t], z}) = IF limited[t] >= z THEN limited[t] ELSE z
    BY <2>i, <2>j, OfTwo
  <2>6. Max({limited[t], z}) \in Nat /\ Max({limited[t], z}) >= x /\ Max({limited[t], z}) >= y
    BY <2>1, <2>4, <2>5
  <2> QED
    BY <2>6 DEF x, y, z
<1> HIDE DEF w, b, g
<1>5. b # NoBucket => Ready(b, PerToken, tick + w)
  BY <1>1, <1>3, <1>4, Waits, NotifyNumbers
<1>6. Ready(g, Global, tick + w)
  BY <1>1, <1>3, <1>4, Waits, NotifyNumbers
<1>7. NotifyTypeOK'
  BY <1>1, <1>2, <1>3, <1>4 DEF NotifyInv, NotifyTypeOK
<1>8. RefilledBefore'
  <2>1. b.last <= tick
    BY <1>1, <1>3 DEF NoBucket
  <2> QED
    BY <1>1, <1>2, <1>3, <2>1 DEF NotifyInv, RefilledBefore
<1>9. PromiseKept'
  <2> SUFFICES ASSUME NEW s \in Requester, waited'[s] # -1
               PROVE  /\ buckets'[s] # NoBucket => Ready(buckets'[s], PerToken, waited'[s])
                      /\ Ready(global', Global, waited'[s])
    BY DEF PromiseKept, Ready
  <2>1. CASE s = t
    BY <1>1, <1>2, <1>5, <1>6, <2>1
  <2>2. CASE s # t
    <3>1. /\ buckets'[s] = buckets[s] /\ waited'[s] = waited[s] /\ waited[s] \in Nat
          /\ buckets[s] # NoBucket => Ready(buckets[s], PerToken, waited[s])
          /\ Ready(global, Global, waited[s])
      BY <1>1, <1>2, <2>2 DEF NotifyInv, PromiseKept
    <3>2. Ready(g, Global, waited[s])
      BY <1>1, <3>1, Refilled, NotifyNumbers DEF NotifyInv, RefilledBefore, g
    <3> QED
      BY <1>2, <3>1, <3>2
  <2> QED
    BY <2>1, <2>2
<1> QED
  BY <1>7, <1>8, <1>9 DEF NotifyInv

(* Every step keeps what the limiter has promised.                         *)
LEMMA NotifyKept == NotifyInv /\ [NotifyNext]_notifyVars => NotifyInv'
<1> SUFFICES ASSUME NotifyInv, [NotifyNext]_notifyVars PROVE NotifyInv'
  OBVIOUS
<1>t. /\ tick \in Tick /\ tick \in Nat /\ global \in Bucket
      /\ buckets \in [Requester -> Bucket \cup {NoBucket}]
      /\ NotifyTypeOK
  BY NotifyNumbers DEF NotifyInv, NotifyTypeOK
<1>1. CASE TryAcquireGlobal
  <2>1. CASE HasToken(refill(global, Global))
    BY <1>t, <1>1, <2>1, AcceptKeeps DEF TryAcquireGlobal
  <2>2. CASE ~HasToken(refill(global, Global))
    <3>1. /\ global' = refill(global, Global) /\ global' \in Bucket
          /\ UNCHANGED <<tick, buckets, limited, waited, accepted>>
      BY <1>t, <1>1, <2>2, Refilled, NotifyNumbers DEF TryAcquireGlobal, NotifyInv, RefilledBefore
    <3>2. NotifyTypeOK'
      BY <1>t, <3>1 DEF NotifyTypeOK
    <3> QED
      BY <3>1, <3>2, RefillKeeps
  <2> QED
    BY <2>1, <2>2
<1>2. CASE Cleanup
  <2>1. NotifyTypeOK'
    BY <1>t, <1>2 DEF Cleanup, NotifyTypeOK
  <2>2. \A s \in Requester : buckets'[s] = buckets[s] \/ buckets'[s] = NoBucket
    BY <1>2 DEF Cleanup
  <2>3. UNCHANGED <<tick, global, waited>>
    BY <1>2 DEF Cleanup
  <2> QED
    BY <2>1, <2>2, <2>3, RefillKeeps
<1>3. CASE Ticks
  <2>1. tick' \in Tick /\ tick' = tick + 1
    BY <1>t, <1>3, NotifyNumbers DEF Ticks, Tick
  <2>a. accepted' \in [Requester \cup {Everyone} -> [Tick -> Nat]]
    BY <1>t, <1>3, <2>1 DEF Ticks, NotifyTypeOK
  <2>2. NotifyTypeOK'
    BY <1>t, <1>3, <2>1, <2>a DEF Ticks, NotifyTypeOK
  <2>3. RefilledBefore'
    <3>1. \A s \in Requester : buckets[s].last \in Nat
      <4>1. /\ \A x \in Bucket : x.last \in Nat
            /\ NoBucket.last \in Nat
        BY NotifyNumbers DEF Bucket, NoBucket
      <4> QED
        BY <1>t, <4>1
    <3>2. global.last \in Nat
      BY <1>t, NotifyNumbers DEF Bucket
    <3> QED
      BY <1>t, <1>3, <2>1, <3>1, <3>2 DEF Ticks, NotifyInv, RefilledBefore
  <2>4. PromiseKept'
    BY <1>3 DEF Ticks, NotifyInv, PromiseKept, Ready
  <2> QED
    BY <2>2, <2>3, <2>4 DEF NotifyInv
<1>4. CASE UNCHANGED notifyVars
  BY <1>t, <1>4 DEF notifyVars, NotifyInv, NotifyTypeOK, RefilledBefore, PromiseKept, Ready
<1> QED
  BY <1>1, <1>2, <1>3, <1>4, TryAcquireKeeps, RetryAfterKeeps DEF NotifyNext

(* What a sender with history h has taken since tick t, at tick now.       *)
Spent(h, now, t) == h[now] - IF t = 0 THEN 0 ELSE h[t - 1]

(* Every token taken was paid for: what was taken from bucket b since any  *)
(* moment up to its last refill, and what it has left, is no more than its *)
(* capacity and what it has gained; since then nothing was taken.  A       *)
(* bucket that was dropped had been idle so long that it had gained as     *)
(* much as the full one that replaces it.                                  *)
Paid(h, now, b, c) ==
    \A t \in 0..now :
        /\ b = NoBucket => Spent(h, now, t) * Minute <= c * (now - t)
        /\ b # NoBucket /\ t <= b.last =>
              Spent(h, now, t) * Minute + b.units <= c * Minute + c * (b.last - t)
        /\ b # NoBucket /\ t > b.last => Spent(h, now, t) = 0

AllPaid ==
    /\ Paid(accepted[Everyone], tick, global, Global)
    /\ \A s \in Requester : Paid(accepted[s], tick, buckets[s], PerToken)

(* Amounts are whole numbers.                                              *)
LEMMA Amounts ==
    ASSUME NEW h \in [Tick -> Nat], NEW now \in Tick, NEW t \in 0..now
    PROVE  now \in Nat /\ t \in Nat /\ t <= now /\ Spent(h, now, t) \in Int
<1>1. now \in Nat /\ now <= MaxTick /\ MaxTick \in Nat
  BY NotifyNumbers DEF Tick
<1>2. h[now] \in Nat
  OBVIOUS
<1>3. t # 0 => t - 1 \in Tick
  BY <1>1 DEF Tick
<1>4. t # 0 => h[t - 1] \in Nat
  BY <1>3
<1> QED
  BY <1>1, <1>2, <1>4 DEF Spent

(* A product grows with its second factor.                                 *)
LEMMA Grown ==
    ASSUME NEW c \in Nat, NEW x \in Int, NEW y \in Int
    PROVE  /\ c * x \in Int /\ c * y \in Int
           /\ c * x + c * y = c * (x + y)
           /\ x <= y => c * x <= c * y
           /\ x * c = c * x
  OBVIOUS

(* Refilling a bucket adds no more than it gains.                          *)
LEMMA PaidRefill ==
    ASSUME tick \in Tick, NEW c \in Nat \ {0}, NEW h \in [Tick -> Nat],
           NEW b \in Bucket \cup {NoBucket}, b.last <= tick, Paid(h, tick, b, c)
    PROVE  Paid(h, tick, refill(b, c), c)
<1> DEFINE new == refill(b, c)
           gained == (tick - b.last) * c
<1>1. new \in Bucket /\ new.last = tick /\ new # NoBucket
  BY Refilled
<1>2. /\ tick \in Nat /\ Minute \in Nat /\ new.units \in Nat /\ b.last \in Nat /\ b.units \in Int
  BY <1>1, NotifyNumbers DEF Bucket, NoBucket, Tick
<1>3. gained \in Int /\ c * Minute \in Int /\ gained = c * (tick - b.last)
  BY <1>2, Grown
<1>4. /\ new.units <= c * Minute
      /\ b # NoBucket => new.units <= b.units + gained
  <2>1. new = [units |-> IF b = NoBucket THEN c * Minute
                         ELSE IF b.units + gained <= c * Minute THEN b.units + gained ELSE c * Minute,
               last |-> tick]
    BY <1>2, <1>3, OfTwo DEF refill
  <2> HIDE DEF new, gained
  <2> QED
    BY <1>2, <1>3, <2>1
<1> HIDE DEF new, gained
<1>5. ASSUME NEW t \in 0..tick
      PROVE  Spent(h, tick, t) * Minute + new.units <= c * Minute + c * (tick - t)
  <2> DEFINE x == Spent(h, tick, t) * Minute
  <2>1. t \in Nat /\ t <= tick /\ Spent(h, tick, t) \in Int
    BY Amounts
  <2>2. x \in Int
    BY <1>2, <2>1
  <2> SUFFICES x + new.units <= c * Minute + c * (tick - t)
    OBVIOUS
  <2>3. c * (tick - t) \in Int /\ c * (tick - t) >= 0
    BY <1>2, <2>1, Grown
  <2>4. CASE b = NoBucket
    <3>1. x <= c * (tick - t)
      BY <2>4 DEF Paid
    <3> HIDE DEF x
    <3> QED
      BY <1>2, <1>3, <1>4, <2>2, <2>3, <3>1
  <2>5. CASE b # NoBucket /\ t <= b.last
    <3>1. x + b.units <= c * Minute + c * (b.last - t)
      BY <2>5 DEF Paid
    <3>2. c * (b.last - t) + c * (tick - b.last) = c * (tick - t) /\ c * (b.last - t) \in Int
      <4>1. (b.last - t) + (tick - b.last) = tick - t
        BY <1>2, <2>1
      <4> QED
        BY <1>2, <2>1, <4>1, Grown
    <3> HIDE DEF x
    <3> QED
      BY <1>2, <1>3, <1>4, <2>2, <2>3, <2>5, <3>1, <3>2
  <2>6. CASE b # NoBucket /\ t > b.last
    <3>1. Spent(h, tick, t) = 0
      BY <2>6 DEF Paid
    <3>2. x = 0
      BY <1>2, <3>1
    <3> HIDE DEF x
    <3> QED
      BY <1>2, <1>3, <1>4, <2>3, <3>2
  <2> QED
    BY <1>2, <2>1, <2>4, <2>5, <2>6
<1>6. Paid(h, tick, new, c)
  BY <1>1, <1>2, <1>5 DEF Paid
<1> QED
  BY <1>6 DEF new

(* A token taken is one less in the bucket.                                *)
LEMMA PaidTake ==
    ASSUME NEW now \in Tick, NEW c \in Nat \ {0}, NEW h \in [Tick -> Nat],
           NEW b \in Bucket, b.last = now, HasToken(b), Paid(h, now, b, c)
    PROVE  Paid([h EXCEPT ![now] = @ + 1], now, Take(b), c)
<1> DEFINE new == Take(b)
           more == [h EXCEPT ![now] = @ + 1]
<1>1. new \in Bucket /\ new.last = now /\ new.units = b.units - Minute
  BY Taken DEF Take, Bucket
<1>2. new # NoBucket /\ b # NoBucket
  BY <1>1 DEF Bucket, NoBucket
<1>3. now \in Nat /\ Minute \in Nat /\ b.units \in Nat /\ c * Minute \in Int
  BY NotifyNumbers DEF Bucket, Tick
<1>4. ASSUME NEW t \in 0..now
      PROVE  Spent(more, now, t) * Minute + new.units <= c * Minute + c * (now - t)
  <2> DEFINE x == Spent(h, now, t)
  <2>1. t \in Nat /\ t <= now /\ x \in Int
    BY Amounts
  <2>2. Spent(more, now, t) = x + 1
    <3>1. more[now] = h[now] + 1 /\ h[now] \in Nat
      OBVIOUS
    <3>2. t # 0 => t - 1 \in Tick /\ t - 1 # now
      BY <1>3, <2>1, NotifyNumbers DEF Tick
    <3>3. t # 0 => more[t - 1] = h[t - 1] /\ h[t - 1] \in Nat
      BY <3>2
    <3> HIDE DEF more
    <3> QED
      BY <3>1, <3>3 DEF Spent
  <2>3. x * Minute + b.units <= c * Minute + c * (now - t)
    BY <1>2, <1>3, <2>1 DEF Paid
  <2> HIDE DEF x
  <2>4. (x + 1) * Minute = x * Minute + Minute /\ x * Minute \in Int
    BY <1>3, <2>1
  <2>5. c * (now - t) \in Int
    BY <1>3, <2>1
  <2> HIDE DEF new, more
  <2> QED
    BY <1>1, <1>3, <2>2, <2>3, <2>4, <2>5
<1> HIDE DEF new, more
<1>5. Paid(more, now, new, c)
  BY <1>1, <1>2, <1>3, <1>4 DEF Paid
<1> QED
  BY <1>5 DEF new, more

(* A bucket that is dropped has been idle for a minute.                    *)
LEMMA PaidDrop ==
    ASSUME tick \in Tick, NEW c \in Nat \ {0}, NEW h \in [Tick -> Nat],
           NEW b \in Bucket, Stale(b), Paid(h, tick, b, c)
    PROVE  Paid(h, tick, NoBucket, c)
<1>1. /\ tick \in Nat /\ Minute \in Nat /\ b.units \in Nat /\ b.last \in Nat /\ b # NoBucket
      /\ b.last + Minute <= tick
  BY NotifyNumbers, NotifyConstants DEF Bucket, Tick, Stale
<1>2. ASSUME NEW t \in 0..tick
      PROVE  Spent(h, tick, t) * Minute <= c * (tick - t)
  <2> DEFINE x == Spent(h, tick, t) * Minute
  <2>1. t \in Nat /\ t <= tick /\ Spent(h, tick, t) \in Int
    BY Amounts
  <2>2. x \in Int
    BY <1>1, <2>1
  <2> SUFFICES x <= c * (tick - t)
    OBVIOUS
  <2>3. CASE t <= b.last
    <3>1. x + b.units <= c * Minute + c * (b.last - t)
      BY <1>1, <2>3 DEF Paid
    <3>2. c * Minute + c * (b.last - t) = c * (Minute + (b.last - t))
      BY <1>1, <2>1, Grown
    <3>3. c * (Minute + (b.last - t)) <= c * (tick - t) /\ c * (tick - t) \in Int
          /\ c * (Minute + (b.last - t)) \in Int
      BY <1>1, <2>1, Grown
    <3> HIDE DEF x
    <3> QED
      BY <1>1, <2>2, <3>1, <3>2, <3>3
  <2>4. CASE t > b.last
    <3>1. Spent(h, tick, t) = 0
      BY <1>1, <2>4 DEF Paid
    <3>2. c * (tick - t) >= 0
      BY <1>1, <2>1, Grown
    <3> QED
      BY <1>1, <3>1, <3>2
  <2> QED
    BY <1>1, <2>1, <2>3, <2>4
<1> QED
  BY <1>2 DEF Paid

(* In a new tick nothing was taken yet.                                    *)
LEMMA PaidTick ==
    ASSUME NEW now \in Tick, now + 1 \in Tick, NEW c \in Nat \ {0}, NEW h \in [Tick -> Nat],
           NEW b \in Bucket \cup {NoBucket}, b.last <= now, Paid(h, now, b, c)
    PROVE  Paid([h EXCEPT ![now + 1] = h[now]], now + 1, b, c)
<1> DEFINE next == [h EXCEPT ![now + 1] = h[now]]
<1>1. now \in Nat /\ h[now] \in Nat /\ b.last \in Nat
  BY NotifyNumbers DEF Bucket, NoBucket, Tick
<1>2. Spent(next, now + 1, now + 1) = 0
  <2>1. next[now + 1] = h[now] /\ next[now] = h[now] /\ (now + 1) - 1 = now
    BY <1>1
  <2> HIDE DEF next
  <2> QED
    BY <1>1, <2>1 DEF Spent
<1>3. ASSUME NEW t \in 0..now PROVE Spent(next, now + 1, t) = Spent(h, now, t)
  <2>1. t # 0 => t - 1 \in Tick /\ t - 1 # now + 1
    BY <1>1, NotifyNumbers DEF Tick
  <2>2. next[now + 1] = h[now] /\ (t # 0 => next[t - 1] = h[t - 1])
    BY <2>1
  <2> HIDE DEF next
  <2> QED
    BY <2>2 DEF Spent
<1>4. ASSUME NEW t \in 0..now
      PROVE  c * (now - t) <= c * ((now + 1) - t) /\ c * (now - t) \in Int /\ Spent(h, now, t) \in Int
             /\ c * ((now + 1) - t) \in Int
  BY <1>1, Amounts, Grown
<1> HIDE DEF next
<1>5. ASSUME NEW t \in 0..now + 1
      PROVE  /\ b = NoBucket => Spent(next, now + 1, t) * Minute <= c * ((now + 1) - t)
             /\ b # NoBucket /\ t <= b.last =>
                   Spent(next, now + 1, t) * Minute + b.units <= c * Minute + c * (b.last - t)
             /\ b # NoBucket /\ t > b.last => Spent(next, now + 1, t) = 0
  <2>1. CASE t \in 0..now
    <3>1. /\ b = NoBucket => Spent(h, now, t) * Minute <= c * (now - t)
          /\ b # NoBucket /\ t <= b.last =>
                Spent(h, now, t) * Minute + b.units <= c * Minute + c * (b.last - t)
          /\ b # NoBucket /\ t > b.last => Spent(h, now, t) = 0
      BY <2>1 DEF Paid
    <3>2. Spent(h, now, t) * Minute \in Int
      BY <1>4, <2>1, NotifyNumbers
    <3> QED
      BY <1>3, <1>4, <2>1, <3>1, <3>2
  <2>2. CASE t = now + 1
    <3>1. ~(t <= b.last) /\ 0 * Minute = 0 /\ c * ((now + 1) - t) = 0
      BY <1>1, <2>2, NotifyNumbers
    <3> QED
      BY <1>2, <2>2, <3>1
  <2> QED
    BY <1>1, <2>1, <2>2
<1>6. Paid(next, now + 1, b, c)
  BY <1>5 DEF Paid
<1> QED
  BY <1>6 DEF next

(* What is paid for is within the allowance.                               *)
LEMMA PaidBound ==
    ASSUME tick \in Tick, NEW c \in Nat \ {0}, NEW h \in [Tick -> Nat],
           NEW b \in Bucket \cup {NoBucket}, b.last <= tick, Paid(h, tick, b, c),
           NEW t \in 0..tick
    PROVE  Spent(h, tick, t) <= Allowance(c, t)
<1> DEFINE x == Spent(h, tick, t)
           g == c * (tick - t)
           q == g \div Minute
<1>1. /\ tick \in Nat /\ t \in Nat /\ t <= tick /\ x \in Int /\ Minute \in Nat \ {0}
      /\ b.last \in Nat /\ b.units \in Int /\ (b # NoBucket => b.units \in Nat)
  BY Amounts, NotifyNumbers DEF Bucket, NoBucket, Tick
<1>2. g \in Nat /\ c * Minute \in Nat /\ x * Minute \in Int
  BY <1>1
<1>3. x * Minute <= c * Minute + g
  <2>1. CASE b = NoBucket
    BY <1>1, <1>2, <2>1 DEF Paid
  <2>2. CASE b # NoBucket /\ t <= b.last
    <3>1. c * (b.last - t) <= g /\ c * (b.last - t) \in Int
      BY <1>1, Grown
    <3>2. x * Minute + b.units <= c * Minute + c * (b.last - t)
      BY <2>2 DEF Paid
    <3> HIDE DEF x, g
    <3> QED
      BY <1>1, <1>2, <2>2, <3>1, <3>2
  <2>3. CASE b # NoBucket /\ t > b.last
    <3>1. x = 0
      BY <2>3 DEF Paid
    <3> HIDE DEF x, g
    <3> QED
      BY <1>1, <1>2, <3>1
  <2> QED
    BY <1>1, <2>1, <2>2, <2>3
<1>4. q \in Int /\ g < (q + 1) * Minute
  <2> HIDE DEF g
  <2>1. g = Minute * q + (g % Minute) /\ g % Minute \in 0 .. Minute - 1 /\ q \in Int
    BY <1>1, <1>2
  <2>2. (q + 1) * Minute = Minute * q + Minute
    BY <1>1, <2>1
  <2> HIDE DEF q
  <2> QED
    BY <1>1, <2>1, <2>2
<1> HIDE DEF x, g, q
<1>5. x < c + q + 1
  <2> SUFFICES ASSUME x >= c + q + 1 PROVE FALSE
    BY <1>1, <1>4
  <2>1. Minute * (c + q + 1) <= Minute * x /\ Minute * x = x * Minute
    BY <1>1, <1>4, Grown
  <2>2. Minute * (c + q + 1) = c * Minute + (q + 1) * Minute
    BY <1>1, <1>4
  <2>3. (q + 1) * Minute \in Int
    BY <1>1, <1>4
  <2> QED
    BY <1>1, <1>2, <1>3, <1>4, <2>1, <2>2, <2>3
<1>6. x <= c + q
  BY <1>1, <1>4, <1>5
<1> QED
  BY <1>6 DEF x, q, g, Allowance

(* The types the steps need.                                               *)
LEMMA NotifyTypes ==
    ASSUME NotifyInv
    PROVE  /\ tick \in Tick /\ global \in Bucket /\ global.last <= tick
           /\ global \in Bucket \cup {NoBucket} /\ accepted[Everyone] \in [Tick -> Nat]
           /\ \A s \in Requester : /\ buckets[s] \in Bucket \cup {NoBucket}
                                    /\ buckets[s].last <= tick
                                    /\ accepted[s] \in [Tick -> Nat]
           /\ Everyone \notin Requester
           /\ \A t \in Requester : refill(buckets[t], PerToken) \in Bucket
           /\ refill(global, Global) \in Bucket
  BY NotifyConstants, NotifyNumbers, Refilled DEF NotifyInv, NotifyTypeOK, RefilledBefore

(* Refilling and dropping buckets keeps everything paid for.               *)
LEMMA NothingTaken ==
    ASSUME NotifyInv, AllPaid, UNCHANGED <<tick, accepted>>,
           global' = global \/ global' = refill(global, Global),
           \A s \in Requester :
             \/ buckets'[s] = buckets[s]
             \/ buckets'[s] = refill(buckets[s], PerToken)
             \/ Stale(buckets[s]) /\ buckets'[s] = NoBucket
    PROVE  AllPaid'
<1>1. Paid(accepted[Everyone], tick, global', Global)
  BY NotifyTypes, NotifyNumbers, PaidRefill DEF AllPaid
<1>2. ASSUME NEW s \in Requester PROVE Paid(accepted[s], tick, buckets'[s], PerToken)
  <2>1. Paid(accepted[s], tick, buckets[s], PerToken)
    BY DEF AllPaid
  <2>2. Stale(buckets[s]) => buckets[s] \in Bucket
    BY NotifyTypes DEF Stale
  <2> QED
    BY <2>1, <2>2, NotifyTypes, NotifyNumbers, PaidRefill, PaidDrop
<1> QED
  BY <1>1, <1>2 DEF AllPaid

(* Every step keeps everything paid for.                                   *)
LEMMA PaidKept == NotifyInv /\ AllPaid /\ [NotifyNext]_notifyVars => AllPaid'
<1> SUFFICES ASSUME NotifyInv, AllPaid, [NotifyNext]_notifyVars PROVE AllPaid'
  OBVIOUS
<1> DEFINE g == refill(global, Global)
<1>g. /\ g \in Bucket /\ g.last = tick /\ Paid(accepted[Everyone], tick, g, Global)
  BY NotifyTypes, NotifyNumbers, Refilled, PaidRefill DEF AllPaid
<1>h. /\ accepted[Everyone] \in [Tick -> Nat] /\ tick \in Tick
      /\ HasToken(g) => Paid([accepted[Everyone] EXCEPT ![tick] = @ + 1], tick, Take(g), Global)
  BY <1>g, NotifyTypes, NotifyNumbers, PaidTake
<1>1. ASSUME NEW t \in Requester, TryAcquire(t) PROVE AllPaid'
  <2> DEFINE b == refill(buckets[t], PerToken)
  <2>1. /\ b \in Bucket /\ b.last = tick /\ Paid(accepted[t], tick, b, PerToken)
        /\ accepted[t] \in [Tick -> Nat]
    BY NotifyTypes, NotifyNumbers, Refilled, PaidRefill DEF AllPaid
  <2>2. CASE /\ HasToken(b) /\ HasToken(g)
             /\ buckets' = [buckets EXCEPT ![t] = Take(b)]
             /\ global' = Take(g)
             /\ Accept({t, Everyone})
             /\ UNCHANGED <<limited, tick>>
    <3>1. Paid([accepted[t] EXCEPT ![tick] = @ + 1], tick, Take(b), PerToken)
      BY <2>1, <2>2, <1>h, NotifyNumbers, PaidTake
    <3>2. /\ accepted'[t] = [accepted[t] EXCEPT ![tick] = @ + 1]
          /\ accepted'[Everyone] = [accepted[Everyone] EXCEPT ![tick] = @ + 1]
          /\ \A s \in Requester \ {t} : accepted'[s] = accepted[s]
      BY <2>2, NotifyTypes DEF Accept
    <3>3. /\ buckets'[t] = Take(b)
          /\ \A s \in Requester \ {t} : buckets'[s] = buckets[s]
      BY <2>2 DEF NotifyInv, NotifyTypeOK
    <3> HIDE DEF b, g
    <3> QED
      BY <1>h, <2>2, <3>1, <3>2, <3>3 DEF AllPaid
  <2>3. CASE /\ buckets' = [buckets EXCEPT ![t] = b]
             /\ global' = global \/ global' = g
             /\ UNCHANGED <<tick, accepted>>
    BY <2>3, NothingTaken DEF NotifyInv, NotifyTypeOK
  <2> QED
    BY <1>1, <2>2, <2>3 DEF TryAcquire
<1>2. ASSUME NEW t \in Requester, RetryAfter(t) PROVE AllPaid'
  <2>1. /\ global' = g /\ UNCHANGED <<tick, accepted>>
        /\ \A s \in Requester : buckets'[s] = buckets[s] \/ buckets'[s] = refill(buckets[s], PerToken)
    BY <1>2 DEF RetryAfter, NotifyInv, NotifyTypeOK
  <2> QED
    BY <2>1, NothingTaken
<1>3. CASE TryAcquireGlobal
  <2>1. CASE HasToken(g)
    <3>1. /\ global' = Take(g) /\ UNCHANGED <<tick, buckets>>
          /\ accepted'[Everyone] = [accepted[Everyone] EXCEPT ![tick] = @ + 1]
          /\ \A s \in Requester : accepted'[s] = accepted[s]
      BY <1>3, <2>1, NotifyTypes DEF TryAcquireGlobal, Accept
    <3> HIDE DEF g
    <3> QED
      BY <1>h, <2>1, <3>1 DEF AllPaid
  <2>2. CASE ~HasToken(g)
    BY <1>3, <2>2, NothingTaken DEF TryAcquireGlobal
  <2> QED
    BY <2>1, <2>2
<1>4. CASE Cleanup
  <2>1. /\ UNCHANGED <<tick, accepted, global>>
        /\ \A s \in Requester :
              buckets'[s] = buckets[s] \/ (Stale(buckets[s]) /\ buckets'[s] = NoBucket)
    BY <1>4 DEF Cleanup
  <2> QED
    BY <2>1, NothingTaken
<1>5. CASE Ticks
  <2>1. /\ tick' = tick + 1 /\ tick + 1 \in Tick /\ UNCHANGED <<buckets, global>>
        /\ \A s \in Requester \cup {Everyone} :
              accepted'[s] = [accepted[s] EXCEPT ![tick + 1] = accepted[s][tick]]
    BY <1>5, NotifyTypes, NotifyNumbers DEF Ticks, Tick
  <2>2. Paid([accepted[Everyone] EXCEPT ![tick + 1] = accepted[Everyone][tick]], tick + 1, global, Global)
    BY <2>1, NotifyTypes, NotifyNumbers, PaidTick DEF AllPaid
  <2>3. ASSUME NEW s \in Requester
        PROVE  Paid([accepted[s] EXCEPT ![tick + 1] = accepted[s][tick]], tick + 1, buckets[s], PerToken)
    BY <2>1, NotifyTypes, NotifyNumbers, PaidTick DEF AllPaid
  <2> QED
    BY <2>1, <2>2, <2>3 DEF AllPaid
<1>6. CASE UNCHANGED notifyVars
  BY <1>6 DEF notifyVars, AllPaid
<1> QED
  BY <1>1, <1>2, <1>3, <1>4, <1>5, <1>6 DEF NotifyNext

(* At first nothing was taken, and the global bucket is full.              *)
LEMMA PaidStart == NotifyInit => AllPaid
<1> SUFFICES ASSUME NotifyInit PROVE AllPaid
  OBVIOUS
<1>1. /\ tick = 0 /\ global.last = 0 /\ global.units = Global * Minute
      /\ \A s \in Requester \cup {Everyone} : accepted[s] = [t \in Tick |-> 0]
      /\ \A s \in Requester : buckets[s] = NoBucket
  BY DEF NotifyInit
<1>2. 0 \in Tick /\ Minute \in Nat /\ Global * Minute \in Nat
  BY NotifyNumbers DEF Tick
<1>3. global # NoBucket
  BY <1>1, <1>2 DEF NoBucket
<1>4. \A s \in Requester \cup {Everyone} : Spent(accepted[s], 0, 0) = 0
  BY <1>1, <1>2 DEF Spent
<1>5. \A t \in 0..0 : t = 0
  OBVIOUS
<1>6. 0 * Minute = 0 /\ PerToken * (0 - 0) = 0 /\ Global * (0 - 0) = 0
  BY NotifyNumbers
<1>7. Paid(accepted[Everyone], 0, global, Global)
  BY <1>1, <1>2, <1>3, <1>4, <1>5, <1>6 DEF Paid
<1>8. \A s \in Requester : Paid(accepted[s], 0, buckets[s], PerToken)
  BY <1>1, <1>2, <1>4, <1>5, <1>6 DEF Paid
<1> QED
  BY <1>1, <1>7, <1>8 DEF AllPaid

(* The limiter's invariant holds in every state.                           *)
LEMMA NotifyInvariance == NotifySpec => [](NotifyInv /\ AllPaid)
  BY NotifyStart, PaidStart, NotifyKept, PaidKept, PTL DEF NotifySpec

(* In whatever stretch of time, a sender, and all together, get no more    *)
(* than the allowance and what a bucket gains meanwhile.                   *)
LEMMA RateBounded == NotifyInv /\ AllPaid => RateBound
<1> SUFFICES ASSUME NotifyInv, AllPaid, NEW t \in 0..tick
             PROVE  /\ Since(Everyone, t) <= Allowance(Global, t)
                    /\ \A s \in Requester : Since(s, t) <= Allowance(PerToken, t)
  BY DEF RateBound
<1>1. \A s \in Requester \cup {Everyone} : Since(s, t) = Spent(accepted[s], tick, t)
  BY DEF Since, Spent
<1> QED
  BY <1>1, NotifyTypes, NotifyNumbers, PaidBound DEF AllPaid

(* Whoever waits as told finds a token in both buckets, unless somebody    *)
(* else took one meanwhile.                                                *)
LEMMA WaitsSuffice == NotifyInv => RetryAfterSuffices
<1> SUFFICES ASSUME NotifyInv, NEW s \in Requester, waited[s] # -1, waited[s] <= tick
             PROVE  /\ HasToken(refill(buckets[s], PerToken))
                    /\ HasToken(refill(global, Global))
  BY DEF RetryAfterSuffices
<1>1. /\ tick \in Tick /\ global \in Bucket /\ global # NoBucket
      /\ buckets[s] \in Bucket \cup {NoBucket} /\ waited[s] \in Nat
      /\ global.last <= tick /\ buckets[s].last <= tick
  BY DEF NotifyInv, NotifyTypeOK, RefilledBefore, Bucket, NoBucket
<1>2. /\ buckets[s] # NoBucket => Ready(buckets[s], PerToken, waited[s])
      /\ Ready(global, Global, waited[s])
  BY DEF NotifyInv, PromiseKept
<1> QED
  BY <1>1, <1>2, Refilled, NotifyNumbers

(* The limiter keeps both promises for any allowances, senders and         *)
(* moments: nobody, nor all together, gets more than the quota, and nobody *)
(* who waits as told gets less.                                            *)
THEOREM QuotaKeptHolds == NotifySpec => []QuotaKept
<1>1. NotifyInv /\ AllPaid => QuotaKept
  BY RateBounded, WaitsSuffice DEF QuotaKept
<1> QED
  BY <1>1, NotifyInvariance, PTL

-----------------------------------------------------------------------------
(* All of them together, as MCServices composes them.                      *)

(* What the parts keep, each of its own.                                   *)
ServicesInv ==
    /\ IInv /\ RegistryInv /\ SessionsInv /\ TokensInv
    /\ NotifyInv /\ AllPaid /\ RetentionInv

(* A step of the composition is a step of each part, or leaves it alone.   *)
LEMMA OneAtATime ==
    [ServicesNext]_servicesVars =>
        /\ [Next]_vars /\ [RegistryNext]_registryVars
        /\ [SessionsNext]_sessionsVars /\ [TokensNext]_tokensVars
        /\ [NotifyNext]_notifyVars /\ [RetentionNext]_retentionVars
  BY DEF ServicesNext, servicesVars

LEMMA ServicesStart == ServicesInit => ServicesInv
<1> SUFFICES ASSUME ServicesInit PROVE ServicesInv
  OBVIOUS
<1>1. PICK place \in {"called", "returned"} : InitAt(place)
  BY DEF ServicesInit
<1>2. IInv
  BY <1>1, RestInv
<1>3. /\ RegistryInit /\ SessionsInit /\ TokensInit /\ NotifyInit /\ RetentionInit
  BY DEF ServicesInit
<1> QED
  BY <1>2, <1>3, RegistryStart, SessionsStart, TokensStart, NotifyStart, PaidStart, RetentionStart
  DEF ServicesInv

LEMMA ServicesKept == ServicesInv /\ [ServicesNext]_servicesVars => ServicesInv'
  BY OneAtATime, NextKeeps, RegistryKept, SessionsKept, TokensKept, NotifyKept, PaidKept,
     RetentionKept
  DEF ServicesInv

LEMMA ServicesInvariance == ServicesSpec => []ServicesInv
  BY ServicesStart, ServicesKept, PTL DEF ServicesSpec

(* Every variable of every part keeps its type, for any values of the      *)
(* constants of all of them.                                               *)
THEOREM ServicesTypeCorrect == ServicesSpec => []ServicesTypeOK
<1>1. ServicesInv => ServicesTypeOK
  BY DEF ServicesInv, ServicesTypeOK, IInv, RegistryInv, SessionsInv, TokensInv, NotifyInv,
     RetentionInv
<1> QED
  BY <1>1, ServicesInvariance, PTL

(* What each part promises holds where they run beside each other, and     *)
(* with the executor also when it is not called at all.                    *)
THEOREM PromisesCompose ==
    ServicesSpec => /\ [](LoginsGuarded /\ QuotaKept)
                    /\ [](("late" \notin regFaults) => StaysRegistered)
                    /\ ClosingIsLast /\ TokenBooksTrue
                    /\ [][ProtectedKept /\ CompletedMeansClean]_retentionVars
<1>1. ServicesInv => LoginsGuarded /\ QuotaKept
  BY BoundFollows, RateBounded, WaitsSuffice DEF ServicesInv, QuotaKept
<1>2. ServicesInv => (("late" \notin regFaults) => StaysRegistered)
  BY DEF ServicesInv, RegistryInv, Settled, StaysRegistered
<1>3. ServicesSpec => [](LoginsGuarded /\ QuotaKept)
  BY <1>1, ServicesInvariance, PTL
<1>4. ServicesSpec => [](("late" \notin regFaults) => StaysRegistered)
  BY <1>2, ServicesInvariance, PTL
<1>5. ServicesSpec => ClosingIsLast
  <2>1. ServicesInv /\ [ServicesNext]_servicesVars => [closing => sent' = sent]_vars
    BY OneAtATime, ClosedSilent, OnlySenderSends DEF ServicesInv
  <2> QED
    BY <2>1, ServicesInvariance, PTL DEF ServicesSpec, ClosingIsLast
<1>6. ServicesSpec => TokenBooksTrue
  <2>1. ServicesInv => TokensInv
    BY DEF ServicesInv
  <2> QED
    BY <2>1, OneAtATime, BooksStep, ServicesInvariance, PTL DEF ServicesSpec, TokenBooksTrue
<1>7. ServicesSpec => [][ProtectedKept /\ CompletedMeansClean]_retentionVars
  <2>1. ServicesInv => RetentionInv
    BY DEF ServicesInv
  <2> QED
    BY <2>1, OneAtATime, CleanupStep, ServicesInvariance, PTL DEF ServicesSpec
<1> QED
  BY <1>3, <1>4, <1>5, <1>6, <1>7, PTL
=============================================================================
