-------------------------- MODULE RepositoryProofs --------------------------
(***************************************************************************)
(* What Repository.tla guarantees for any contents, any number of requests *)
(* and syncs at once and any number of changes and failures: a hook runs   *)
(* with what was frozen, and undisturbed requests leave no secret file     *)
(* that the row does not know.                                             *)
(*                                                                         *)
(* The files change several steps before the row does: the invariant says  *)
(* what a request that overwrites or deletes a secret owes at each of its  *)
(* steps, and that there is one such request at a time, or disturbance.    *)
(***************************************************************************)
EXTENDS Repository, TLAPS

MaybeText == Text \cup {Gone}
MaybeRef == [id : Nat, hash : Text \cup {Unset}, version : Nat] \cup {Gone}
LocalZone == [file : [File -> MaybeText], manifest : Manifest \cup {NoManifest}]
WriterRec == [step : {"idle", "put", "rename", "store"}, body : MaybeText, row : MaybeRef]
DeleterRec == [step : {"idle", "local", "oss", "row"}, row : MaybeRef]
SyncerRec == [step : SyncerStep, content : MaybeText, objects : Manifest \cup {NoManifest},
              found : BOOLEAN]
OperationRec == [step : {"none", "freeze", "queued", "sent", "hook"}, action : Action \cup {Gone},
                 config : MaybeText, refs : MaybeRef, used : MaybeText]

(* What the control plane has is typed; the bucket, the node and what is   *)
(* downloaded need not be for what follows.                                *)
ShapesOK ==
    /\ profile \in MaybeText
    /\ reference \in MaybeRef
    /\ local \in LocalZone
    /\ writer \in [Writer -> WriterRec]
    /\ deleter \in DeleterRec
    /\ syncer \in [Syncer -> SyncerRec]
    /\ download \in [step : {"idle", "sync", "preflight"}, left : {download.left}]
    /\ operation \in OperationRec
    /\ disturbed \in BOOLEAN
    /\ changes \in Nat

(* What is sent to a node has no secret, a hook runs with the frozen       *)
(* configuration, and a preflight is one of an operation that was sent.    *)
OperationOK ==
    /\ operation.step \in {"sent", "hook"} => operation.refs = Gone
    /\ operation.step = "hook" => operation.used = operation.config
    /\ download.step = "preflight" => operation.step = "sent"

(* The row knows the secret's file, if there is one.                       *)
Known == local.file["secret"] = Gone \/ (reference # Gone /\ local.file["secret"] = reference.hash)

(* ... or a failed removal has left it.                                    *)
Filed == Known \/ leftover

(* Undisturbed, a request has the secret for itself ...                    *)
Alone ==
    \A w \in Writer : writer[w].step # "idle" =>
        /\ deleter.step = "idle"
        /\ \A v \in Writer : writer[v].step # "idle" => v = w

(* ... and the row it read; it has put its file in place before it stores  *)
(* the row, or taken the file away before it deletes the row, unless the   *)
(* removal failed.                                                         *)
Owed ==
    /\ \A w \in Writer : writer[w].step # "idle" => reference # Gone /\ reference = writer[w].row
    /\ \A w \in Writer : writer[w].step = "store" => local.file["secret"] = writer[w].body
    /\ (\A w \in Writer : writer[w].step # "store") => Filed
    /\ deleter.step = "local" => reference # Gone
    /\ deleter.step \in {"oss", "row"} => local.file["secret"] = Gone \/ leftover

(* A request that is over has left nothing behind, one that is not has a   *)
(* new content and the row it read.                                        *)
IdleOK ==
    /\ \A w \in Writer : \/ writer[w] = IdleWriter
                           \/ /\ writer[w].step # "idle"
                              /\ writer[w].body \in Text /\ writer[w].row # Gone
    /\ deleter.step = "idle" => deleter = IdleDeleter

IInv == ShapesOK /\ IdleOK /\ OperationOK /\ (~disturbed => Alone /\ Owed)

-----------------------------------------------------------------------------
(* The records the model starts from are typed.                            *)
LEMMA Records ==
    /\ IdleWriter \in WriterRec /\ IdleWriter.step = "idle"
    /\ IdleDeleter \in DeleterRec /\ IdleDeleter.step = "idle"
    /\ IdleSyncer \in SyncerRec
    /\ NoOperation \in OperationRec /\ NoOperation.step = "none"
  BY DEF IdleWriter, IdleDeleter, IdleSyncer, NoOperation, WriterRec, DeleterRec, SyncerRec,
         SyncerStep, OperationRec, MaybeText, MaybeRef, NoManifest

(* A manifest lists some of the files, each with its content.              *)
LEMMA Hashes ==
    ASSUME NEW files \in [File -> MaybeText]
    PROVE  HashesOf(files) \in Manifest
  <1>1. HashesOf(files) \in [{g \in File : files[g] # Gone} -> Text]
    BY DEF HashesOf, MaybeText
  <1> QED
    BY <1>1 DEF Manifest

(* The changes of the secret's file and of the configuration.              *)
LEMMA Filing ==
    ASSUME NEW zone \in LocalZone, NEW text \in MaybeText, NEW m \in Manifest \cup {NoManifest}
    PROVE  /\ [zone EXCEPT !.file["secret"] = text] \in LocalZone
           /\ [zone EXCEPT !.file["secret"] = text].file["secret"] = text
           /\ [zone EXCEPT !.file["config"] = text] \in LocalZone
           /\ [zone EXCEPT !.file["config"] = text].file["secret"] = zone.file["secret"]
           /\ [zone EXCEPT !.manifest = m] \in LocalZone
           /\ [zone EXCEPT !.manifest = m].file["secret"] = zone.file["secret"]
  BY DEF LocalZone, File

-----------------------------------------------------------------------------
(* The operation.                                                          *)

(* An operation is created: nothing is frozen yet that a hook could use.   *)
LEMMA Freezing ==
    ASSUME ShapesOK, OperationOK, UNCHANGED download,
           (\E a \in Action : FreezeConfig(a)) \/ FreezeSecrets \/ HookEnds
    PROVE  operation' \in OperationRec /\ OperationOK'
  <1>1. CASE \E a \in Action : FreezeConfig(a)
    <2>1. PICK a \in Action : FreezeConfig(a)
      BY <1>1
    <2>2. ResolveConfig \in MaybeText
      BY DEF ResolveConfig, ShapesOK, LocalZone, File
    <2>3. operation' \in OperationRec /\ operation'.step = "freeze" /\ operation.step = "none"
      BY <2>1, <2>2, Records DEF FreezeConfig, OperationRec
    <2> QED
      BY <2>3 DEF OperationOK
  <1>2. CASE FreezeSecrets
    <2>1. /\ operation' \in OperationRec
          /\ operation'.step = "queued" /\ operation.step = "freeze"
      BY <1>2 DEF FreezeSecrets, ShapesOK, OperationRec, ResolveReferences
    <2> QED
      BY <2>1 DEF OperationOK
  <1>3. CASE HookEnds
    BY <1>3, Records DEF HookEnds, OperationOK
  <1> QED
    BY <1>1, <1>2, <1>3

(* What is dispatched is what the rows still have, and that is no secret.  *)
LEMMA Dispatching ==
    ASSUME ShapesOK, OperationOK, Dispatch
    PROVE  operation' \in OperationRec /\ OperationOK'
  <1>1. operation.step = "queued" /\ download' = download
    BY DEF Dispatch
  <1>2. CASE operation' = NoOperation
    BY <1>1, <1>2, Records DEF OperationOK
  <1>3. CASE operation.refs = Gone /\ operation' = [operation EXCEPT !.step = "sent"]
    BY <1>1, <1>3 DEF ShapesOK, OperationRec, OperationOK
  <1> QED
    BY <1>2, <1>3 DEF Dispatch, SameReferences, SchemaAccepts, ResolveReferences

(* The hook is only reached through a comparison with the node's file.     *)
LEMMA Rendering ==
    ASSUME ShapesOK, OperationOK, operation.step = "sent", download'.step # "preflight",
           operation' = RenderedConfig \/ operation' = NoOperation
    PROVE  operation' \in OperationRec /\ OperationOK'
  <1>1. CASE operation' = NoOperation
    BY <1>1, Records DEF OperationOK
  <1>2. CASE operation' = [operation EXCEPT !.step = "hook", !.used = operation.config]
    BY <1>2 DEF ShapesOK, OperationRec, OperationOK
  <1> QED
    BY <1>1, <1>2 DEF RenderedConfig

(* What these steps leave alone, and what is left alone when it is.        *)
LEMMA Elsewhere ==
    ASSUME IInv,
           UNCHANGED <<profile, reference, local, writer, deleter, syncer, disturbed, leftover, changes>>,
           operation' \in OperationRec, OperationOK',
           download' \in [step : {"idle", "sync", "preflight"}, left : {download'.left}]
    PROVE  IInv'
  BY DEF IInv, ShapesOK, IdleOK, Alone, Owed, Filed, Known

(* The operation on the control plane.                                     *)
LEMMA Operating ==
    ASSUME IInv, (\E a \in Action : FreezeConfig(a)) \/ FreezeSecrets \/ Dispatch \/ HookEnds
    PROVE  IInv'
  <1>1. /\ UNCHANGED <<profile, reference, local, writer, deleter, syncer, disturbed, leftover, changes>>
        /\ UNCHANGED download
    BY DEF FreezeConfig, FreezeSecrets, Dispatch, HookEnds
  <1>2. operation' \in OperationRec /\ OperationOK'
    BY <1>1, Freezing, Dispatching DEF IInv
  <1>3. download' \in [step : {"idle", "sync", "preflight"}, left : {download'.left}]
    BY <1>1 DEF IInv, ShapesOK
  <1> QED
    BY <1>1, <1>2, <1>3, Elsewhere

(* The node's sync, and the preflight with its own.                        *)
LEMMA Downloading ==
    ASSUME IInv, ListObjects \/ downloadObject \/ VerifyAfterSync \/ preflight
    PROVE  IInv'
  <1>1. UNCHANGED <<profile, reference, local, writer, deleter, syncer, disturbed, leftover, changes>>
    BY DEF ListObjects, downloadObject, VerifyAfterSync, preflight
  <1>2. /\ IdleDownload \in [step : {"idle", "sync", "preflight"}, left : {IdleDownload.left}]
        /\ IdleDownload.step = "idle"
    BY DEF IdleDownload
  <1>3. download \in [step : {"idle", "sync", "preflight"}, left : {download.left}]
    BY DEF IInv, ShapesOK
  <1>4. CASE ListObjects
    <2>1. /\ download' \in [step : {"idle", "sync", "preflight"}, left : {download'.left}]
          /\ download'.step = "preflight" => operation.step = "sent"
          /\ operation' = operation
      BY <1>4 DEF ListObjects
    <2>2. operation' \in OperationRec /\ OperationOK'
      BY <2>1 DEF IInv, ShapesOK, OperationOK
    <2> QED
      BY <1>1, <2>1, <2>2, Elsewhere
  <1>5. CASE downloadObject /\ operation' = operation
    <2>1. /\ download' \in [step : {"idle", "sync", "preflight"}, left : {download'.left}]
          /\ download'.step \in {"idle", download.step}
      <3>1. CASE download' = IdleDownload
        BY <1>2, <3>1
      <3>2. CASE download' = [download EXCEPT !.left = Tail(@)]
        BY <1>3, <3>2
      <3> QED
        BY <1>5, <3>1, <3>2 DEF downloadObject
    <2>2. operation' \in OperationRec /\ OperationOK'
      BY <1>5, <2>1 DEF IInv, ShapesOK, OperationOK
    <2> QED
      BY <1>1, <2>1, <2>2, Elsewhere
  <1>6. CASE downloadObject /\ operation' # operation
    <2>1. download' = IdleDownload /\ operation' = NoOperation
      BY <1>6 DEF downloadObject, Failed
    <2>2. operation' \in OperationRec /\ OperationOK'
      BY <1>2, <2>1, Records DEF OperationOK
    <2> QED
      BY <1>1, <1>2, <2>1, <2>2, Elsewhere
  <1>7. CASE VerifyAfterSync
    <2>1. download' = IdleDownload /\ download.step \in {"sync", "preflight"}
      BY <1>3, <1>7 DEF VerifyAfterSync
    <2>2. CASE download.step = "sync"
      <3>1. operation' = operation
        BY <1>7, <2>2 DEF VerifyAfterSync
      <3>2. operation' \in OperationRec /\ OperationOK'
        BY <1>2, <2>1, <3>1 DEF IInv, ShapesOK, OperationOK
      <3> QED
        BY <1>1, <1>2, <2>1, <3>2, Elsewhere
    <2>3. CASE download.step = "preflight"
      <3>1. operation' = RenderedConfig \/ operation' = NoOperation
        BY <1>7, <2>3 DEF VerifyAfterSync
      <3>2. operation.step = "sent"
        BY <2>3 DEF IInv, OperationOK
      <3>3. operation' \in OperationRec /\ OperationOK'
        BY <1>2, <2>1, <3>1, <3>2, Rendering DEF IInv
      <3> QED
        BY <1>1, <1>2, <2>1, <3>3, Elsewhere
    <2> QED
      BY <2>1, <2>2, <2>3
  <1>8. CASE preflight
    <2>1. /\ download' = IdleDownload
          /\ operation.step = "sent"
          /\ operation' = RenderedConfig \/ operation' = NoOperation
      BY <1>8 DEF preflight, NodeFree
    <2>2. operation' \in OperationRec /\ OperationOK'
      BY <1>2, <2>1, Rendering DEF IInv
    <2> QED
      BY <1>1, <1>2, <2>1, <2>2, Elsewhere
  <1> QED
    BY <1>4, <1>5, <1>6, <1>7, <1>8

-----------------------------------------------------------------------------
(* Configurations and syncs, which leave the secret and its row alone.     *)
LEMMA Aside ==
    ASSUME IInv, UNCHANGED <<reference, writer, deleter, download, operation, disturbed, leftover>>,
           profile' \in MaybeText, changes' \in Nat, syncer' \in [Syncer -> SyncerRec],
           local' \in LocalZone, local'.file["secret"] = local.file["secret"]
    PROVE  IInv'
  BY DEF IInv, ShapesOK, IdleOK, OperationOK, Alone, Owed, Filed, Known

LEMMA Configuring ==
    ASSUME IInv, (\E t \in Text : CreateConfigProfile(t) \/ UpdateConfigProfile(t))
                 \/ DeleteConfigProfile
    PROVE  IInv'
  <1>1. UNCHANGED <<reference, local, syncer, writer, deleter, download, operation, disturbed,
                    leftover>>
    BY DEF CreateConfigProfile, UpdateConfigProfile, DeleteConfigProfile
  <1>2. profile' \in MaybeText
    BY DEF CreateConfigProfile, UpdateConfigProfile, DeleteConfigProfile, MaybeText
  <1>3. changes' \in Nat
    BY DEF CreateConfigProfile, UpdateConfigProfile, DeleteConfigProfile, Change, IInv, ShapesOK
  <1>4. local \in LocalZone /\ syncer \in [Syncer -> SyncerRec]
    BY DEF IInv, ShapesOK
  <1> QED
    BY <1>1, <1>2, <1>3, <1>4, Aside

(* A sync writes the configuration and the manifest of the control plane.  *)
LEMMA Syncing ==
    ASSUME IInv, NEW y \in Syncer, copySeedRepository(y) \/ SyncStep(y) \/ AbortSync(y)
    PROVE  IInv'
  <1>1. UNCHANGED <<profile, changes, reference, writer, deleter, download, operation, disturbed,
                    leftover>>
    BY DEF copySeedRepository, SyncStep, AbortSync, ListProfiles, syncConfigProfiles,
           verifySecretReferences, SignManifest, writeManifest, WalkDir, uploadRepository
  <1>2. /\ profile \in MaybeText /\ changes \in Nat
        /\ local \in LocalZone /\ syncer \in [Syncer -> SyncerRec]
        /\ local.file \in [File -> MaybeText]
        /\ syncer[y] \in SyncerRec /\ syncer[y].content \in MaybeText
        /\ syncer[y].objects \in Manifest \cup {NoManifest}
    BY DEF IInv, ShapesOK, LocalZone, SyncerRec
  <1>3. local' \in LocalZone /\ local'.file["secret"] = local.file["secret"]
    <2>1. CASE local' = local
      BY <1>2, <2>1
    <2>2. CASE local' = [local EXCEPT !.manifest = syncer[y].objects]
      BY <1>2, <2>2, Filing
    <2>3. CASE \E text \in MaybeText : local' = [local EXCEPT !.file["config"] = text]
      <3>1. PICK text \in MaybeText : local' = [local EXCEPT !.file["config"] = text]
        BY <2>3
      <3>2. NoManifest \in Manifest \cup {NoManifest}
        OBVIOUS
      <3> QED
        BY <1>2, <3>1, <3>2, Filing
    <2>4. Seed \in MaybeText
      BY RepositoryConstants DEF MaybeText
    <2> QED
      BY <1>2, <2>1, <2>2, <2>3, <2>4
      DEF copySeedRepository, SyncStep, AbortSync, ListProfiles, syncConfigProfiles,
          verifySecretReferences, SignManifest, writeManifest, WalkDir, uploadRepository
  <1>4. syncer' \in [Syncer -> SyncerRec]
    <2>1. PICK z \in SyncerRec : z = syncer[y]
      BY <1>2
    <2>2. /\ \A step \in SyncerStep : [z EXCEPT !.step = step] \in SyncerRec
          /\ \A step \in SyncerStep, text \in MaybeText :
                [z EXCEPT !.step = step, !.content = text] \in SyncerRec
          /\ \A step \in SyncerStep, m \in Manifest \cup {NoManifest} :
                [z EXCEPT !.step = step, !.objects = m] \in SyncerRec
          /\ \A step \in SyncerStep, b \in BOOLEAN :
                [z EXCEPT !.step = step, !.found = b] \in SyncerRec
          /\ [z EXCEPT !.found = TRUE] \in SyncerRec
      BY DEF SyncerRec
    <2>3. /\ HashesOf(local.file) \in Manifest \cup {NoManifest}
          /\ NoManifest \in Manifest \cup {NoManifest} /\ Gone \in MaybeText
      BY <1>2, Hashes DEF MaybeText
    <2>4. /\ z.step \in Object => After[z.step] \in SyncerStep
          /\ {"idle", "list", "configs", "verify", "compute", "write", "config"} \subseteq SyncerStep
      BY DEF After, Object, SyncerStep
    <2>5. CASE copySeedRepository(y) \/ ListProfiles(y) \/ syncConfigProfiles(y)
      <3>1. \/ syncer' = [syncer EXCEPT ![y] = [z EXCEPT !.step = "list"]]
            \/ syncer' = [syncer EXCEPT ![y] = [z EXCEPT !.step = "verify", !.content = profile]]
            \/ syncer' = [syncer EXCEPT ![y] = [z EXCEPT !.step = "configs", !.content = profile]]
            \/ syncer' = [syncer EXCEPT ![y] = [z EXCEPT !.step = "verify", !.content = Gone]]
        BY <1>2, <2>1, <2>5 DEF copySeedRepository, ListProfiles, syncConfigProfiles
      <3>2. /\ [z EXCEPT !.step = "list"] \in SyncerRec
            /\ [z EXCEPT !.step = "verify", !.content = profile] \in SyncerRec
            /\ [z EXCEPT !.step = "configs", !.content = profile] \in SyncerRec
            /\ [z EXCEPT !.step = "verify", !.content = Gone] \in SyncerRec
        BY <1>2, <2>2, <2>3, <2>4
      <3> QED
        BY <1>2, <3>1, <3>2
    <2>6. CASE verifySecretReferences(y) \/ AbortSync(y)
      <3>1. \/ syncer' = [syncer EXCEPT ![y] = [z EXCEPT !.step = "compute"]]
            \/ syncer' = [syncer EXCEPT ![y] = IdleSyncer]
        BY <1>2, <2>1, <2>6 DEF verifySecretReferences, AbortSync
      <3> QED
        BY <1>2, <2>2, <2>4, <3>1, Records
    <2>7. CASE SignManifest(y) \/ writeManifest(y)
      <3>1. \/ syncer' = [syncer EXCEPT ![y] =
                            [z EXCEPT !.step = "write", !.objects = HashesOf(local.file)]]
            \/ syncer' = [syncer EXCEPT ![y] =
                            [z EXCEPT !.step = "config", !.objects = NoManifest]]
        BY <1>2, <2>1, <2>7 DEF SignManifest, writeManifest
      <3>2. /\ [z EXCEPT !.step = "write", !.objects = HashesOf(local.file)] \in SyncerRec
            /\ [z EXCEPT !.step = "config", !.objects = NoManifest] \in SyncerRec
        BY <2>2, <2>3, <2>4
      <3> QED
        BY <1>2, <3>1, <3>2
    <2>8. CASE WalkDir(y) \/ uploadRepository(y)
      <3>1. CASE WalkDir(y)
        <4>1. \/ syncer' = [syncer EXCEPT ![y] = [z EXCEPT !.found = TRUE]]
              \/ syncer' = [syncer EXCEPT ![y] = [z EXCEPT !.step = After[z.step]]]
          BY <1>2, <2>1, <3>1 DEF WalkDir
        <4>2. z.step \in Object
          BY <2>1, <3>1 DEF WalkDir
        <4> QED
          BY <1>2, <2>2, <2>4, <4>1, <4>2
      <3>2. CASE uploadRepository(y) /\ syncer' # [syncer EXCEPT ![y] = IdleSyncer]
        <4>1. /\ syncer' = [syncer EXCEPT ![y] = [z EXCEPT !.step = After[z.step], !.found = FALSE]]
              /\ z.step \in Object
          BY <1>2, <2>1, <3>2 DEF uploadRepository
        <4> QED
          BY <1>2, <2>2, <2>4, <4>1
      <3> QED
        BY <1>2, <2>8, <3>1, <3>2, Records
    <2> QED
      BY <2>5, <2>6, <2>7, <2>8 DEF SyncStep
  <1> QED
    BY <1>1, <1>2, <1>3, <1>4, Aside

-----------------------------------------------------------------------------
(* Secrets.                                                                *)

(* A new row has no content, and there was no file: nobody had a row.      *)
LEMMA Referring ==
    ASSUME IInv, CreateSecretReference
    PROVE  IInv'
  <1>1. /\ UNCHANGED <<profile, local, syncer, writer, deleter, download, operation, disturbed,
                     leftover>>
        /\ reference = Gone /\ reference' = [id |-> changes, hash |-> Unset, version |-> 0]
        /\ changes \in Nat /\ changes' \in Nat
    BY DEF CreateSecretReference, Change, IInv, ShapesOK
  <1>2. reference' \in MaybeRef /\ reference' # Gone
    BY <1>1, RepositoryConstants DEF MaybeRef
  <1>3. ShapesOK' /\ IdleOK' /\ OperationOK'
    BY <1>1, <1>2 DEF IInv, ShapesOK, IdleOK, OperationOK
  <1>4. ASSUME ~disturbed
        PROVE  Alone' /\ Owed'
    BY <1>1, <1>4 DEF IInv, Alone, Owed, Filed, Known
  <1> QED
    BY <1>1, <1>3, <1>4 DEF IInv

(* A request for a secret begins: it is alone, or there is disturbance.    *)
LEMMA Beginning ==
    ASSUME IInv, (\E w \in Writer, t \in Text : BeginOverwrite(w, t)) \/ BeginDeleteSecret
    PROVE  IInv'
  <1>1. UNCHANGED <<profile, reference, local, syncer, download, operation, leftover>>
        /\ reference # Gone
    BY DEF BeginOverwrite, BeginDeleteSecret
  <1>2. changes' \in Nat /\ disturbed' \in BOOLEAN /\ (~disturbed' => ~disturbed /\ SecretsQuiet)
    <2>1. changes' = changes + 1 /\ changes \in Nat
      BY DEF BeginOverwrite, BeginDeleteSecret, Change, IInv, ShapesOK
    <2>2. disturbed' = (disturbed \/ ~SecretsQuiet)
      BY DEF BeginOverwrite, BeginDeleteSecret
    <2>3. disturbed' \in BOOLEAN /\ (~disturbed' => ~disturbed /\ SecretsQuiet)
      BY <2>2
    <2> QED
      BY <2>1, <2>3
  <1>3. SecretsQuiet => deleter.step = "idle" /\ \A w \in Writer : writer[w].step = "idle"
    BY Records DEF SecretsQuiet
  <1>4. OperationOK'
    BY <1>1 DEF IInv, OperationOK
  <1>5. CASE BeginDeleteSecret
    <2>1. /\ deleter' \in DeleterRec /\ deleter'.step = "local"
          /\ UNCHANGED writer
      BY <1>5 DEF BeginDeleteSecret, DeleterRec, IInv, ShapesOK
    <2>2. ShapesOK' /\ IdleOK'
      BY <1>1, <1>2, <2>1 DEF IInv, ShapesOK, IdleOK
    <2>3. ~disturbed' => Alone' /\ Owed'
      BY <1>1, <1>2, <1>3, <2>1 DEF IInv, Alone, Owed, Filed, Known
    <2> QED
      BY <1>4, <2>2, <2>3 DEF IInv
  <1>6. CASE \E w \in Writer, t \in Text : BeginOverwrite(w, t)
    <2>1. PICK w \in Writer, t \in Text : BeginOverwrite(w, t)
      BY <1>6
    <2>2. PICK r \in WriterRec : r = [step |-> "put", body |-> t, row |-> reference]
      BY DEF WriterRec, MaybeText, IInv, ShapesOK
    <2>3. /\ writer' = [writer EXCEPT ![w] = r] /\ UNCHANGED deleter
          /\ r.step = "put" /\ r.row = reference /\ r.body \in Text
      BY <2>1, <2>2 DEF BeginOverwrite
    <2>4. ShapesOK' /\ IdleOK'
      BY <1>1, <1>2, <2>3 DEF IInv, ShapesOK, IdleOK
    <2>5. ~disturbed' => Alone' /\ Owed'
      BY <1>1, <1>2, <1>3, <2>3 DEF IInv, ShapesOK, Alone, Owed, Filed, Known
    <2> QED
      BY <1>4, <2>4, <2>5 DEF IInv
  <1> QED
    BY <1>5, <1>6

(* What a request that overwrites the secret does to its own record.       *)
LEMMA Writing ==
    ASSUME IInv, NEW w \in Writer, WriterStep(w)
    PROVE  /\ writer[w].step # "idle"
           /\ \/ /\ writer[w].step = "put"
                 /\ UNCHANGED <<local, leftover, reference>>
                 /\ writer' = [writer EXCEPT ![w] = [writer[w] EXCEPT !.step = "rename"]]
              \/ /\ writer[w].step \in {"put", "rename"}
                 /\ UNCHANGED <<local, leftover, reference>>
                 /\ writer' = [writer EXCEPT ![w] = IdleWriter]
              \/ /\ writer[w].step = "rename"
                 /\ local' = [local EXCEPT !.file["secret"] = writer[w].body]
                 /\ UNCHANGED reference
                 /\ writer' = [writer EXCEPT ![w] = [writer[w] EXCEPT !.step = "store"]]
              \/ /\ writer[w].step = "store"
                 /\ UNCHANGED <<local, leftover>>
                 /\ reference' = IF reference = Gone \/ reference.id # writer[w].row.id
                                 THEN reference
                                 ELSE [writer[w].row EXCEPT !.hash = writer[w].body,
                                                            !.version = @ + 1]
                 /\ writer' = [writer EXCEPT ![w] = IdleWriter]
              \/ /\ writer[w].step = "store"
                 /\ local' = [local EXCEPT !.file["secret"] = Gone] \/ (leftover' /\ UNCHANGED local)
                 /\ UNCHANGED reference
                 /\ writer' = [writer EXCEPT ![w] = IdleWriter]
  <1>1. writer \in [Writer -> WriterRec]
    BY DEF IInv, ShapesOK
  <1>2. CASE PutSecret(w)
    BY <1>1, <1>2 DEF PutSecret, WriterRec
  <1>3. CASE InstallSecret(w)
    BY <1>1, <1>3 DEF InstallSecret, WriterRec
  <1>4. CASE StoreReference(w)
    BY <1>1, <1>4 DEF StoreReference, Stored, RemoveSecret, RemovalFails, WriterRec
  <1> QED
    BY <1>2, <1>3, <1>4 DEF WriterStep

(* A step of a request that is alone with the secret keeps the invariant   *)
(* if it does what its own record says.                                    *)
LEMMA Advancing ==
    ASSUME IInv, NEW w \in Writer, NEW q \in WriterRec, writer[w].step # "idle",
           writer' = [writer EXCEPT ![w] = q],
           q = IdleWriter \/ (q.step # "idle" /\ q.body \in Text /\ q.row # Gone),
           UNCHANGED <<profile, deleter, syncer, download, operation, disturbed, changes>>,
           local' \in LocalZone, reference' \in MaybeRef,
           ~disturbed => /\ q.step # "idle" => reference' # Gone /\ reference' = q.row
                         /\ q.step = "store" => local'.file["secret"] = q.body
                         /\ q.step # "store" => Filed'
    PROVE  IInv'
  <1>1. writer \in [Writer -> WriterRec] /\ writer' \in [Writer -> WriterRec]
    BY DEF IInv, ShapesOK
  <1>2. writer'[w] = q /\ \A v \in Writer : v # w => writer'[v] = writer[v]
    BY <1>1
  <1>3. ShapesOK' /\ OperationOK'
    BY <1>1 DEF IInv, ShapesOK, OperationOK
  <1>4. IdleOK'
    BY <1>2 DEF IInv, IdleOK
  <1>5. ASSUME ~disturbed
        PROVE  Alone' /\ Owed'
    <2>1. deleter.step = "idle" /\ \A v \in Writer : v # w => writer[v].step = "idle"
      BY <1>5 DEF IInv, Alone
    <2>2. deleter'.step = "idle" /\ \A v \in Writer : v # w => writer'[v].step = "idle"
      BY <1>2, <2>1
    <2>3. Alone'
      BY <2>2 DEF Alone
    <2>4. Owed'
      BY <1>2, <1>5, <2>2 DEF Owed
    <2> QED
      BY <2>3, <2>4
  <1> QED
    BY <1>3, <1>4, <1>5 DEF IInv

LEMMA Overwriting ==
    ASSUME IInv, NEW w \in Writer, WriterStep(w)
    PROVE  IInv'
  <1>1. /\ UNCHANGED <<profile, deleter, syncer, download, operation, disturbed, changes>>
        /\ local \in LocalZone /\ reference \in MaybeRef
        /\ writer[w] \in WriterRec
    BY DEF WriterStep, PutSecret, InstallSecret, StoreReference, IInv, ShapesOK
  <1>2. PICK r \in WriterRec : r = writer[w]
    BY <1>1
  <1>3. /\ r.body \in Text /\ r.body \in MaybeText /\ Gone \in MaybeText
        /\ r.row \in MaybeRef /\ r.row # Gone
    BY <1>2, Writing, Records DEF WriterRec, MaybeText, IInv, IdleOK
  <1>4. ~disturbed => /\ reference # Gone /\ reference = r.row
                      /\ r.step = "store" => local.file["secret"] = r.body
                      /\ r.step # "store" => Filed
    <2>1. ~disturbed => /\ reference # Gone /\ reference = r.row
                        /\ r.step = "store" => local.file["secret"] = r.body
      BY <1>2, Writing DEF IInv, Owed
    <2>2. ~disturbed /\ r.step # "store" => \A v \in Writer : writer[v].step # "store"
      BY <1>2, Writing DEF IInv, Alone
    <2> QED
      BY <2>1, <2>2 DEF IInv, Owed
  <1>5. CASE /\ r.step = "put"
             /\ UNCHANGED <<local, leftover, reference>>
             /\ writer' = [writer EXCEPT ![w] = [r EXCEPT !.step = "rename"]]
    <2> DEFINE q == [r EXCEPT !.step = "rename"]
    <2>1. q \in WriterRec /\ q.step = "rename" /\ q.row = r.row /\ q.body = r.body
      BY <1>2 DEF WriterRec
    <2>2. writer' = [writer EXCEPT ![w] = q]
      BY <1>5
    <2> HIDE DEF q
    <2>3. ~disturbed => Filed' /\ reference' # Gone /\ reference' = q.row
      BY <1>4, <1>5, <2>1 DEF Filed, Known
    <2>4. q.step # "idle" /\ q.body \in Text /\ q.row # Gone /\ writer[w].step # "idle"
      BY <1>2, <1>3, <1>5, <2>1
    <2>5. local' \in LocalZone /\ reference' \in MaybeRef /\ q.step # "store"
      BY <1>1, <1>5, <2>1
    <2> QED
      BY <1>1, <2>1, <2>2, <2>3, <2>4, <2>5, Advancing
  <1>6. CASE /\ r.step \in {"put", "rename"}
             /\ UNCHANGED <<local, leftover, reference>>
             /\ writer' = [writer EXCEPT ![w] = IdleWriter]
    <2>1. ~disturbed => Filed'
      BY <1>4, <1>6 DEF Filed, Known
    <2> QED
      BY <1>1, <1>2, <1>6, <2>1, Advancing, Records
  <1>7. CASE /\ r.step = "rename"
             /\ local' = [local EXCEPT !.file["secret"] = r.body]
             /\ UNCHANGED reference
             /\ writer' = [writer EXCEPT ![w] = [r EXCEPT !.step = "store"]]
    <2> DEFINE q == [r EXCEPT !.step = "store"]
    <2>1. q \in WriterRec /\ q.step = "store" /\ q.row = r.row /\ q.body = r.body
      BY <1>2 DEF WriterRec
    <2>2. writer' = [writer EXCEPT ![w] = q]
      BY <1>7
    <2> HIDE DEF q
    <2>3. NoManifest \in Manifest \cup {NoManifest}
      OBVIOUS
    <2>4. local' \in LocalZone /\ local'.file["secret"] = r.body
      BY <1>1, <1>3, <1>7, <2>3, Filing
    <2>5. ~disturbed => reference' # Gone /\ reference' = q.row
      BY <1>4, <1>7, <2>1
    <2>6. q.step # "idle" /\ q.body \in Text /\ q.row # Gone /\ writer[w].step # "idle"
      BY <1>2, <1>3, <1>7, <2>1
    <2>7. reference' \in MaybeRef /\ local'.file["secret"] = q.body /\ q.step = "store"
      BY <1>1, <1>7, <2>1, <2>4
    <2> QED
      BY <1>1, <2>1, <2>2, <2>4, <2>5, <2>6, <2>7, Advancing
  <1>8. CASE /\ r.step = "store"
             /\ UNCHANGED <<local, leftover>>
             /\ reference' = IF reference = Gone \/ reference.id # r.row.id THEN reference
                             ELSE [r.row EXCEPT !.hash = r.body, !.version = @ + 1]
             /\ writer' = [writer EXCEPT ![w] = IdleWriter]
    <2>1.   /\ [r.row EXCEPT !.hash = r.body, !.version = @ + 1] \in MaybeRef
            /\ [r.row EXCEPT !.hash = r.body, !.version = @ + 1].hash = r.body
            /\ [r.row EXCEPT !.hash = r.body, !.version = @ + 1] # Gone
      <3>1. PICK x \in [id : Nat, hash : Text \cup {Unset}, version : Nat] : x = r.row
        BY <1>3 DEF MaybeRef
      <3>2. x.version + 1 \in Nat
        BY <3>1
      <3>3. PICK n \in Nat : n = x.version + 1
        BY <3>2
      <3>4. /\ [x EXCEPT !.hash = r.body, !.version = n]
                  \in [id : Nat, hash : Text \cup {Unset}, version : Nat]
            /\ [x EXCEPT !.hash = r.body, !.version = n].hash = r.body
        BY <1>3, <3>1
      <3>5. [r.row EXCEPT !.hash = r.body, !.version = @ + 1]
              = [x EXCEPT !.hash = r.body, !.version = n]
        BY <3>1, <3>3
      <3> QED
        BY <3>4, <3>5, RepositoryConstants DEF MaybeRef
    <2> QED
      BY <1>1, <1>2, <1>3, <1>4, <1>8, <2>1, Advancing, Records DEF Filed, Known
  <1>9. CASE /\ r.step = "store"
             /\ local' = [local EXCEPT !.file["secret"] = Gone] \/ (leftover' /\ UNCHANGED local)
             /\ UNCHANGED reference
             /\ writer' = [writer EXCEPT ![w] = IdleWriter]
    <2>1. NoManifest \in Manifest \cup {NoManifest}
      OBVIOUS
    <2>2. local' \in LocalZone /\ (local'.file["secret"] = Gone \/ leftover')
      <3>1. CASE local' = [local EXCEPT !.file["secret"] = Gone]
        BY <1>1, <1>3, <2>1, <3>1, Filing
      <3>2. CASE leftover' /\ UNCHANGED local
        BY <1>1, <1>3, <3>2
      <3> QED
        BY <1>9, <3>1, <3>2
    <2>3. Filed'
      BY <2>2 DEF Filed, Known
    <2> QED
      BY <1>1, <1>2, <1>9, <2>2, <2>3, Advancing, Records, Writing
  <1> QED
    BY <1>2, <1>5, <1>6, <1>7, <1>8, <1>9, Writing

(* The steps of a deletion: the file, the object and then the row.         *)
LEMMA Deleting ==
    ASSUME IInv, DeleteSecretReference
    PROVE  IInv'
  <1>1. UNCHANGED <<profile, writer, syncer, download, operation, disturbed, changes>>
    BY DEF DeleteSecretReference, RemoveSecret, RemovalFails
  <1>2. local \in LocalZone /\ deleter \in DeleterRec /\ Gone \in MaybeText
    BY DEF IInv, ShapesOK, MaybeText
  <1>3. deleter.step # "idle"
    BY <1>2 DEF DeleteSecretReference, RemoveSecret, RemovalFails
  <1>4. ~disturbed => (\A w \in Writer : writer[w].step = "idle") /\ Filed
    BY <1>3 DEF IInv, Alone, Owed
  <1>5. OperationOK'
    BY <1>1 DEF IInv, OperationOK
  <1>6. CASE /\ deleter.step = "local"
             /\ local' = [local EXCEPT !.file["secret"] = Gone] \/ (leftover' /\ UNCHANGED local)
             /\ deleter' = [deleter EXCEPT !.step = "oss"]
             /\ UNCHANGED reference
    <2>1. NoManifest \in Manifest \cup {NoManifest}
      OBVIOUS
    <2>2. local' \in LocalZone /\ (local'.file["secret"] = Gone \/ leftover')
      <3>1. CASE local' = [local EXCEPT !.file["secret"] = Gone]
        BY <1>2, <1>6, <2>1, <3>1, Filing
      <3>2. CASE leftover' /\ UNCHANGED local
        BY <1>2, <1>6, <3>2
      <3> QED
        BY <1>6, <3>1, <3>2
    <2>3. deleter' \in DeleterRec /\ deleter'.step = "oss"
      BY <1>2, <1>6 DEF DeleterRec
    <2>4. ShapesOK' /\ IdleOK'
      BY <1>1, <1>6, <2>2, <2>3 DEF IInv, ShapesOK, IdleOK
    <2>5. ~disturbed' => Alone' /\ Owed'
      BY <1>1, <1>4, <2>2, <2>3 DEF Alone, Owed, Filed, Known
    <2> QED
      BY <1>5, <2>4, <2>5 DEF IInv
  <1>7. CASE /\ deleter.step = "oss"
             /\ deleter' = [deleter EXCEPT !.step = "row"]
             /\ UNCHANGED <<local, leftover, reference>>
    <2>1. deleter' \in DeleterRec /\ deleter'.step = "row"
      BY <1>2, <1>7 DEF DeleterRec
    <2>2. ShapesOK' /\ IdleOK'
      BY <1>1, <1>7, <2>1 DEF IInv, ShapesOK, IdleOK
    <2>3. ~disturbed' => Alone' /\ Owed'
      BY <1>1, <1>4, <1>7, <2>1 DEF IInv, Alone, Owed, Filed, Known
    <2> QED
      BY <1>5, <2>2, <2>3 DEF IInv
  <1>8. CASE /\ deleter.step = "row"
             /\ reference' \in {reference, Gone}
             /\ deleter' = IdleDeleter
             /\ UNCHANGED <<local, leftover>>
    <2>1. reference' \in MaybeRef
      BY <1>8 DEF IInv, ShapesOK, MaybeRef
    <2>2. ShapesOK' /\ IdleOK'
      BY <1>1, <1>8, <2>1, Records DEF IInv, ShapesOK, IdleOK
    <2>3. ~disturbed => local.file["secret"] = Gone \/ leftover
      BY <1>8 DEF IInv, Owed
    <2>4. ~disturbed' => Alone' /\ Owed'
      BY <1>1, <1>4, <1>8, <2>3, Records DEF Alone, Owed, Filed, Known
    <2> QED
      BY <1>5, <2>2, <2>4 DEF IInv
  <1> QED
    BY <1>6, <1>7, <1>8 DEF DeleteSecretReference, RemoveSecret, RemovalFails

(* A restart forgets the requests, and is a disturbance.                   *)
LEMMA Restarting ==
    ASSUME IInv, RestartControlPlane
    PROVE  IInv'
  <1>1. /\ UNCHANGED <<profile, reference, local, download, operation, leftover, changes>>
        /\ disturbed' = TRUE
        /\ writer' = [w \in Writer |-> IdleWriter]
        /\ deleter' = IdleDeleter
        /\ syncer' = [y \in Syncer |-> IdleSyncer]
    BY DEF RestartControlPlane
  <1>2. ShapesOK' /\ IdleOK'
    BY <1>1, Records DEF IInv, ShapesOK, IdleOK
  <1>3. OperationOK'
    BY <1>1 DEF IInv, OperationOK
  <1> QED
    BY <1>1, <1>2, <1>3 DEF IInv

-----------------------------------------------------------------------------
(* A repository that has just been carried, or an empty one, has the       *)
(* secret of the row.                                                      *)
LEMMA Starting ==
    ASSUME RepositoryInit
    PROVE  IInv
  <1>1. /\ profile \in MaybeText
        /\ changes \in Nat
        /\ disturbed = FALSE
        /\ writer = [w \in Writer |-> IdleWriter] /\ deleter = IdleDeleter
        /\ syncer = [y \in Syncer |-> IdleSyncer]
        /\ operation = NoOperation /\ download = IdleDownload
    BY RepositoryConstants DEF RepositoryInit, MaybeText
  <1>2. /\ reference \in MaybeRef
        /\ reference # Gone => reference.hash \in Text
    BY DEF RepositoryInit, MaybeRef
  <1>3. PICK secret \in MaybeText :
             /\ secret = IF reference = Gone THEN Gone ELSE reference.hash
             /\ \/ local = Carried([config |-> profile, secret |-> secret])
                \/ reference = Gone /\ local = EmptyZone
    BY <1>2 DEF RepositoryInit, MaybeText
  <1>4. local \in LocalZone /\ Known
    <2>1. CASE local = Carried([config |-> profile, secret |-> secret])
      <3> DEFINE files == [config |-> profile, secret |-> secret]
      <3>1. files \in [File -> MaybeText] /\ files["secret"] = secret
        BY <1>1, <1>3 DEF File
      <3>2. HashesOf(files) \in Manifest
        BY <3>1, Hashes
      <3>3. local = [file |-> files, manifest |-> HashesOf(files)]
        BY <2>1, <3>1 DEF Carried
      <3> QED
        BY <1>3, <3>1, <3>2, <3>3 DEF LocalZone, Known
    <2>2. CASE reference = Gone /\ local = EmptyZone
      BY <2>2 DEF EmptyZone, NoFiles, LocalZone, MaybeText, Known, File
    <2> QED
      BY <1>3, <2>1, <2>2
  <1>5. ShapesOK
    BY <1>1, <1>2, <1>4, Records DEF ShapesOK, IdleDownload
  <1>6. IdleOK /\ OperationOK /\ Alone /\ Owed
    BY <1>1, <1>4, Records DEF IdleOK, OperationOK, Alone, Owed, Filed, IdleDownload
  <1> QED
    BY <1>5, <1>6 DEF IInv

(* Every step, and no step at all, keeps the invariant.                    *)
LEMMA Stepping ==
    ASSUME IInv, [RepositoryNext]_repositoryVars
    PROVE  IInv'
  <1>1. CASE UNCHANGED repositoryVars
    BY <1>1 DEF repositoryVars, IInv, ShapesOK, IdleOK, OperationOK, Alone, Owed, Filed, Known
  <1>2. CASE RepositoryNext
    BY <1>2, Configuring, Referring, Beginning, Overwriting, Deleting, Syncing, Restarting,
       Operating, Downloading
    DEF RepositoryNext, DownloadStep
  <1> QED
    BY <1>1, <1>2

(* The invariant that the two properties rest on, for any contents and any *)
(* number of requests, syncs, changes, failures and operations.            *)
THEOREM Invariance == RepositorySpec => []IInv
  <1>1. RepositoryInit => IInv
    BY Starting
  <1>2. IInv /\ [RepositoryNext]_repositoryVars => IInv'
    BY Stepping
  <1> QED
    BY <1>1, <1>2, PTL DEF RepositorySpec

(* A hook runs with the configuration that was frozen when its operation   *)
(* was created, and with no secret reference: writeRuntimeConfig compares  *)
(* and the schema of the command accepts none.                             *)
THEOREM RunsFrozenHolds == RepositorySpec => []RunsFrozen
  <1>1. IInv => RunsFrozen
    BY DEF IInv, OperationOK, RunsFrozen
  <1> QED
    BY <1>1, Invariance, PTL

(* OverwriteSecret and DeleteSecretReference leave no file of a secret     *)
(* that the row does not know, whether the upload, the rename or the       *)
(* statement fails: unless the last removal of the file failed itself, two *)
(* of them overlapped or a restart cut one short.                          *)
THEOREM NoDriftHolds == RepositorySpec => []NoDrift
  <1>1. IInv => NoDrift
    <2> SUFFICES ASSUME IInv, SecretsQuiet, ~disturbed, ~leftover
                 PROVE  Known
      BY DEF NoDrift, Known
    <2>1. \A w \in Writer : writer[w].step # "store"
      BY Records DEF SecretsQuiet
    <2> QED
      BY <2>1 DEF IInv, Owed, Filed
  <1> QED
    BY <1>1, Invariance, PTL
=============================================================================
