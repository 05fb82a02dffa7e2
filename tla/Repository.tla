----------------------------- MODULE Repository -----------------------------
(***************************************************************************)
(* The deployment repository: the rows of the control plane, its files     *)
(* under repository/, the objects in OSS and the copy on a node.           *)
(* RepositorySync carries rows into files and files into OSS; the node's   *)
(* deployment.sync carries OSS to the node; OverwriteSecret and            *)
(* DeleteSecretReference reach past the sync; an operation freezes what    *)
(* its hook may use.                                                       *)
(*                                                                         *)
(* One feature with one configuration profile and one secret reference.    *)
(* What the sync copies from the seed and signs per release is constant,   *)
(* except the seed's own file of the same configuration.                   *)
(*                                                                         *)
(* A definition right before the one it alters is that definition with a   *)
(* plausible mistake in it and is not part of RepositoryNext.              *)
(***************************************************************************)
EXTENDS Naturals, Sequences

CONSTANTS
    Text,       \* what a content hash tells apart
    Gone,       \* no row, no file, no object; not a Text
    Unset,      \* content_hash of a reference without a body; not a Text
    Seed,       \* the seed's file of the configuration, Gone if there is none
    Writer,     \* OverwriteSecret requests
    Syncer,     \* RepositorySync requests
    Action,     \* of the operations: "install", "restore"
    MaxChange,  \* bound: requests that change a row
    MaxTrouble, \* bound: failed calls, given-up requests and restarts
    MaxOperation       \* bound: operations

(* The files a hook reads, in the order WalkDir and ListObjects meet them: *)
(* configs/, manifests/, secrets/.                                         *)
File == {"config", "secret"}
Files == [File -> Text \cup {Gone}]
NoFiles == [f \in File |-> Gone]
Object == {"config", "manifest", "secret"}
ObjectOrder == <<"config", "manifest", "secret">>

(* The objects of a manifest: those that existed, with their hashes.       *)
Manifest == UNION {[S -> Text] : S \in SUBSET File}
NoManifest == Gone

Zone == [file : Files, manifest : Manifest \cup {NoManifest}]
EmptyZone == [file |-> NoFiles, manifest |-> NoManifest]

Reference == [id : 0..MaxChange, hash : Text \cup {Unset}, version : 0..(MaxChange + 1)]
References == Reference \cup {Gone}

ASSUME RepositoryConstants ==
    /\ {Gone, Unset} \cap Text = {} /\ Gone # Unset
    /\ Gone \notin [id : Nat, hash : Text \cup {Unset}, version : Nat]
    /\ Seed \in Text \cup {Gone}
    /\ MaxChange \in Nat /\ MaxTrouble \in Nat /\ MaxOperation \in Nat

VARIABLES
    profile,     \* deployment_config_profile, Gone if there is none
    reference,   \* deployment_secret_reference, Gone if there is none
    local,       \* repository/ on the control plane
    oss,         \* the bucket under the node's prefix
    nodeRepo,    \* repository/ on the node
    prefixed,    \* the OSS profile has a prefix of its own
    writer,      \* OverwriteSecret requests in progress
    deleter,     \* DeleteSecretReference request in progress
    syncer,      \* RepositorySync requests in progress
    download,    \* the node's deployment.sync, or the sync of its preflight
    operation,   \* the operation under way
    disturbed,   \* history: secret requests overlapped, or a restart cut one short
    leftover,    \* history: the last removal of the secret's file failed
    changes, trouble, operations

repositoryVars == <<profile, reference, local, oss, nodeRepo, prefixed, writer, deleter, syncer,
                    download, operation, disturbed, leftover, changes, trouble, operations>>

IdleWriter == [step |-> "idle", body |-> Gone, row |-> Gone]
IdleDeleter == [step |-> "idle", row |-> Gone]
IdleSyncer == [step |-> "idle", content |-> Gone, objects |-> NoManifest, found |-> FALSE]
IdleDownload == [step |-> "idle", left |-> <<>>]
NoOperation == [step |-> "none", action |-> Gone, config |-> Gone, refs |-> Gone, used |-> Gone]

SyncerStep == {"idle", "list", "configs", "verify", "compute", "write"} \cup Object

RepositoryTypeOK ==
    /\ profile \in Text \cup {Gone}
    /\ reference \in References
    /\ local \in Zone /\ oss \in Zone /\ nodeRepo \in Zone
    /\ prefixed \in BOOLEAN
    /\ writer \in [Writer -> [step : {"idle", "put", "rename", "store"},
                              body : Text \cup {Gone}, row : References]]
    /\ deleter \in [step : {"idle", "local", "oss", "row"}, row : References]
    /\ syncer \in [Syncer -> [step : SyncerStep, content : Text \cup {Gone},
                              objects : Manifest \cup {NoManifest}, found : BOOLEAN]]
    /\ download \in [step : {"idle", "sync", "preflight"},
                     left : UNION {[1..n -> Object] : n \in 0..3}]
    /\ operation \in [step : {"none", "freeze", "queued", "sent", "hook"},
                      action : Action \cup {Gone}, config : Text \cup {Gone},
                      refs : References, used : Text \cup {Gone}]
    /\ disturbed \in BOOLEAN /\ leftover \in BOOLEAN
    /\ changes \in 0..MaxChange /\ trouble \in 0..MaxTrouble /\ operations \in 0..MaxOperation

(* A repository that is still empty, or one that a sync has just carried   *)
(* to the node: whatever the rows ask for is in every zone.                *)
HashesOf(files) == [f \in {g \in File : files[g] # Gone} |-> files[f]]
Carried(files) == [file |-> files, manifest |-> HashesOf(files)]

RepositoryInit ==
    /\ profile \in Text \cup {Gone}
    /\ reference \in [id : {0}, hash : Text, version : {1}] \cup {Gone}
    /\ LET secret == IF reference = Gone THEN Gone ELSE reference.hash IN
       local \in {Carried([config |-> profile, secret |-> secret])}
                \cup (IF reference = Gone THEN {EmptyZone} ELSE {})
    /\ oss = local /\ nodeRepo = local
    /\ prefixed \in BOOLEAN
    /\ writer = [w \in Writer |-> IdleWriter]
    /\ deleter = IdleDeleter
    /\ syncer = [y \in Syncer |-> IdleSyncer]
    /\ download = IdleDownload
    /\ operation = NoOperation
    /\ disturbed = FALSE /\ leftover = FALSE
    /\ changes \in 0..MaxChange
    /\ trouble \in 0..MaxTrouble /\ operations \in 0..MaxOperation   \* the bounds left to it

Change == changes < MaxChange /\ changes' = changes + 1
Trouble == trouble < MaxTrouble /\ trouble' = trouble + 1

-----------------------------------------------------------------------------
(* Configuration profiles and secret references: rows only.  The files of  *)
(* a deleted profile stay in every zone.                                   *)
CreateConfigProfile(t) ==
    /\ Change
    /\ profile = Gone
    /\ profile' = t
    /\ UNCHANGED <<reference, local, oss, nodeRepo, prefixed, writer, deleter, syncer, download,
                   operation, disturbed, leftover, trouble, operations>>

UpdateConfigProfile(t) ==
    /\ Change
    /\ profile \notin {Gone, t}
    /\ profile' = t
    /\ UNCHANGED <<reference, local, oss, nodeRepo, prefixed, writer, deleter, syncer, download,
                   operation, disturbed, leftover, trouble, operations>>

DeleteConfigProfile ==
    /\ Change
    /\ profile # Gone
    /\ profile' = Gone
    /\ UNCHANGED <<reference, local, oss, nodeRepo, prefixed, writer, deleter, syncer, download,
                   operation, disturbed, leftover, trouble, operations>>

CreateSecretReference ==
    /\ Change
    /\ reference = Gone
    /\ reference' = [id |-> changes, hash |-> Unset, version |-> 0]
    /\ UNCHANGED <<profile, local, oss, nodeRepo, prefixed, writer, deleter, syncer, download,
                   operation, disturbed, leftover, trouble, operations>>

SecretsQuiet == deleter = IdleDeleter /\ \A w \in Writer : writer[w] = IdleWriter

(* OverwriteSecret reads the reference and writes a temporary file ...     *)
BeginOverwrite(w, t) ==
    /\ Change
    /\ writer[w].step = "idle"
    /\ reference # Gone
    /\ writer' = [writer EXCEPT ![w] = [step |-> "put", body |-> t, row |-> reference]]
    /\ disturbed' = (disturbed \/ ~SecretsQuiet)
    /\ UNCHANGED <<profile, reference, local, oss, nodeRepo, prefixed, deleter, syncer, download,
                   operation, leftover, trouble, operations>>

(* ... uploads it under the reference's key, to which the sync adds the    *)
(* profile's prefix ...                                                    *)
InOSS(body) == IF prefixed THEN oss ELSE [oss EXCEPT !.file["secret"] = body]

PutSecret(w) ==
    /\ writer[w].step = "put"
    /\ \/ /\ oss' = InOSS(writer[w].body)
          /\ writer' = [writer EXCEPT ![w].step = "rename"]
          /\ UNCHANGED trouble
       \/ /\ Trouble                                       \* the upload fails
          /\ writer' = [writer EXCEPT ![w] = IdleWriter]
          /\ UNCHANGED oss
    /\ UNCHANGED <<profile, reference, local, nodeRepo, prefixed, deleter, syncer, download,
                   operation, disturbed, leftover, changes, operations>>

(* ... renames it into place ...                                           *)
InstallSecret(w) ==
    /\ writer[w].step = "rename"
    /\ \/ /\ local' = [local EXCEPT !.file["secret"] = writer[w].body]
          /\ writer' = [writer EXCEPT ![w].step = "store"]
          /\ leftover' = FALSE
          /\ UNCHANGED trouble
       \/ /\ Trouble                                       \* the rename fails
          /\ writer' = [writer EXCEPT ![w] = IdleWriter]
          /\ UNCHANGED <<local, leftover>>
    /\ UNCHANGED <<profile, reference, oss, nodeRepo, prefixed, deleter, syncer, download,
                   operation, disturbed, changes, operations>>

(* os.Remove of the secret's file, and how it fails: the file stays, and   *)
(* the caller goes on.  A file that is not there is no failure.            *)
RemoveSecret ==
    /\ local' = [local EXCEPT !.file["secret"] = Gone]
    /\ leftover' = FALSE
RemovalFails ==
    /\ local.file["secret"] # Gone
    /\ leftover' = TRUE
    /\ UNCHANGED local

(* ... and updates the row it read: if it is gone, the UPDATE of no row is *)
(* no error.  A failed one takes the file away again, if it can.           *)
Stored(w) ==
    LET row == writer[w].row IN
    IF reference = Gone \/ reference.id # row.id THEN reference
    ELSE [row EXCEPT !.hash = writer[w].body, !.version = @ + 1]

StoreReferenceKeepingFile(w) ==
    /\ writer[w].step = "store"
    /\ \/ reference' = Stored(w) /\ UNCHANGED trouble
       \/ Trouble /\ UNCHANGED reference
    /\ writer' = [writer EXCEPT ![w] = IdleWriter]
    /\ UNCHANGED <<profile, local, oss, nodeRepo, prefixed, deleter, syncer, download,
                   operation, disturbed, leftover, changes, operations>>

StoreReference(w) ==
    /\ writer[w].step = "store"
    /\ \/ reference' = Stored(w) /\ UNCHANGED <<local, leftover, trouble>>
       \/ Trouble /\ (RemoveSecret \/ RemovalFails) /\ UNCHANGED reference
    /\ writer' = [writer EXCEPT ![w] = IdleWriter]
    /\ UNCHANGED <<profile, oss, nodeRepo, prefixed, deleter, syncer, download,
                   operation, disturbed, changes, operations>>

BeginDeleteSecret ==
    /\ Change
    /\ deleter = IdleDeleter
    /\ reference # Gone
    /\ deleter' = [step |-> "local", row |-> reference]
    /\ disturbed' = (disturbed \/ ~SecretsQuiet)
    /\ UNCHANGED <<profile, reference, local, oss, nodeRepo, prefixed, writer, syncer, download,
                   operation, leftover, trouble, operations>>

(* The removals of the file and of the object are best effort: whatever   *)
(* they return, the row goes.                                              *)
DeleteSecretReference ==
    /\ \/ /\ deleter.step = "local"
          /\ \/ RemoveSecret /\ UNCHANGED trouble
             \/ Trouble /\ RemovalFails
          /\ deleter' = [deleter EXCEPT !.step = "oss"]
          /\ UNCHANGED <<oss, reference>>
       \/ /\ deleter.step = "oss"
          /\ \/ oss' = InOSS(Gone) /\ UNCHANGED trouble
             \/ Trouble /\ UNCHANGED oss
          /\ deleter' = [deleter EXCEPT !.step = "row"]
          /\ UNCHANGED <<local, reference, leftover>>
       \/ /\ deleter.step = "row"
          /\ \/ reference' = Gone /\ UNCHANGED trouble
             \/ Trouble /\ UNCHANGED reference
          /\ deleter' = IdleDeleter
          /\ UNCHANGED <<local, oss, leftover>>
    /\ UNCHANGED <<profile, nodeRepo, prefixed, writer, syncer, download,
                   operation, disturbed, changes, operations>>

-----------------------------------------------------------------------------
(* RepositorySync.  copySeedRepository puts the seed's configuration over  *)
(* the local one before syncConfigProfiles writes the row's.               *)
copySeedRepository(y) ==
    /\ syncer[y].step = "idle"
    /\ syncer' = [syncer EXCEPT ![y].step = "list"]
    /\ local' = IF Seed = Gone THEN local ELSE [local EXCEPT !.file["config"] = Seed]
    /\ UNCHANGED <<profile, reference, oss, nodeRepo, prefixed, writer, deleter, download,
                   operation, disturbed, leftover, changes, trouble, operations>>

(* syncConfigProfiles reads the rows, and writes each into its file.       *)
ListProfiles(y) ==
    /\ syncer[y].step = "list"
    /\ syncer' = [syncer EXCEPT ![y].step = IF profile = Gone THEN "verify" ELSE "configs",
                                ![y].content = profile]
    /\ UNCHANGED <<profile, reference, local, oss, nodeRepo, prefixed, writer, deleter, download,
                   operation, disturbed, leftover, changes, trouble, operations>>

syncConfigProfiles(y) ==
    /\ syncer[y].step = "configs"
    /\ local' = [local EXCEPT !.file["config"] = syncer[y].content]
    /\ syncer' = [syncer EXCEPT ![y].step = "verify", ![y].content = Gone]
    /\ UNCHANGED <<profile, reference, oss, nodeRepo, prefixed, writer, deleter, download,
                   operation, disturbed, leftover, changes, trouble, operations>>

verifySecretReferences(y) ==
    /\ syncer[y].step = "verify"
    /\ syncer' = [syncer EXCEPT ![y] =
                     IF reference = Gone \/ local.file["secret"] = reference.hash
                     THEN [@ EXCEPT !.step = "compute"] ELSE IdleSyncer]
    /\ UNCHANGED <<profile, reference, local, oss, nodeRepo, prefixed, writer, deleter, download,
                   operation, disturbed, leftover, changes, trouble, operations>>

(* computeRepositoryObjects and SignManifest.                              *)
SignManifest(y) ==
    /\ syncer[y].step = "compute"
    /\ syncer' = [syncer EXCEPT ![y].step = "write", ![y].objects = HashesOf(local.file)]
    /\ UNCHANGED <<profile, reference, local, oss, nodeRepo, prefixed, writer, deleter, download,
                   operation, disturbed, leftover, changes, trouble, operations>>

(* The canonical payload that writeCanonicalManifest puts beside it is not *)
(* part of the state: the agent computes the payload itself.  If writing   *)
(* it fails, the sync ends here (AbortSync).                               *)
writeManifest(y) ==
    /\ syncer[y].step = "write"
    /\ local' = [local EXCEPT !.manifest = syncer[y].objects]
    /\ syncer' = [syncer EXCEPT ![y].step = "config", ![y].objects = NoManifest]
    /\ UNCHANGED <<profile, reference, oss, nodeRepo, prefixed, writer, deleter, download,
                   operation, disturbed, leftover, changes, trouble, operations>>

(* One object of a zone is put in another, as it now is.                   *)
Carry(from, to, name) ==
    IF name = "manifest" THEN [to EXCEPT !.manifest = from.manifest]
    ELSE [to EXCEPT !.file[name] = from.file[name]]
Has(zone, name) == IF name = "manifest" THEN zone.manifest # NoManifest ELSE zone.file[name] # Gone

(* uploadRepository walks the directories: the files of one are those it   *)
(* had when the walk came to it, and each is uploaded as it is when it is  *)
(* opened.  One that has gone in between ends the sync with an error.      *)
AfterSkippingManifests == [config |-> "secret", manifest |-> "secret", secret |-> "idle"]
After == [config |-> "manifest", manifest |-> "secret", secret |-> "idle"]
WalkDir(y) ==
    /\ syncer[y].step \in Object /\ ~syncer[y].found
    /\ syncer' = IF Has(local, syncer[y].step) THEN [syncer EXCEPT ![y].found = TRUE]
                 ELSE [syncer EXCEPT ![y].step = After[@]]
    /\ UNCHANGED <<profile, reference, local, oss, nodeRepo, prefixed, writer, deleter, download,
                   operation, disturbed, leftover, changes, trouble, operations>>

uploadRepository(y) ==
    /\ syncer[y].step \in Object /\ syncer[y].found
    /\ \/ /\ Has(local, syncer[y].step)
          /\ oss' = Carry(local, oss, syncer[y].step)
          /\ syncer' = [syncer EXCEPT ![y].step = After[@], ![y].found = FALSE]
       \/ /\ ~Has(local, syncer[y].step)
          /\ syncer' = [syncer EXCEPT ![y] = IdleSyncer]
          /\ UNCHANGED oss
    /\ UNCHANGED <<profile, reference, local, nodeRepo, prefixed, writer, deleter, download,
                   operation, disturbed, leftover, changes, trouble, operations>>

(* A failed upload or a closed connection ends the sync where it is.       *)
AbortSync(y) ==
    /\ syncer[y].step # "idle"
    /\ Trouble
    /\ syncer' = [syncer EXCEPT ![y] = IdleSyncer]
    /\ UNCHANGED <<profile, reference, local, oss, nodeRepo, prefixed, writer, deleter, download,
                   operation, disturbed, leftover, changes, operations>>

(* The control plane stops between two steps of a change of a secret.      *)
RestartControlPlane ==
    /\ Trouble
    /\ ~SecretsQuiet
    /\ disturbed' = TRUE
    /\ writer' = [w \in Writer |-> IdleWriter]
    /\ deleter' = IdleDeleter
    /\ syncer' = [y \in Syncer |-> IdleSyncer]
    /\ UNCHANGED <<profile, reference, local, oss, nodeRepo, prefixed, download,
                   operation, leftover, changes, operations>>

-----------------------------------------------------------------------------
(* An operation freezes the configuration as the files of the control      *)
(* plane have it, and then the references as the rows have them.           *)
ResolveConfig == local.file["config"]
ResolveReferences == reference

FreezeConfig(a) ==
    /\ operations < MaxOperation /\ operations' = operations + 1
    /\ operation = NoOperation
    /\ operation' = [NoOperation EXCEPT !.step = "freeze", !.action = a,
                                        !.config = ResolveConfig]
    /\ UNCHANGED <<profile, reference, local, oss, nodeRepo, prefixed, writer, deleter, syncer,
                   download, disturbed, leftover, changes, trouble>>

FreezeSecrets ==
    /\ operation.step = "freeze"
    /\ operation' = [operation EXCEPT !.step = "queued", !.refs = ResolveReferences]
    /\ UNCHANGED <<profile, reference, local, oss, nodeRepo, prefixed, writer, deleter, syncer,
                   download, disturbed, leftover, changes, trouble, operations>>

(* What the schema of the command accepts: no array of the scheduler's     *)
(* Go type, with "hash" for content_hash and a number for the version, and *)
(* for deployment.restore no release_id.                                   *)
SchemaAccepts(a, refs) == a # "restore" /\ refs = Gone

(* taskArguments resolves the references again and compares their hashes.  *)
SameReferences(frozen) == ResolveReferences = frozen

DispatchUnchecked ==
    /\ operation.step = "queued"
    /\ operation' = IF SchemaAccepts(operation.action, ResolveReferences)
                    THEN [operation EXCEPT !.step = "sent"] ELSE NoOperation
    /\ UNCHANGED <<profile, reference, local, oss, nodeRepo, prefixed, writer, deleter, syncer,
                   download, disturbed, leftover, changes, trouble, operations>>

Dispatch ==
    /\ operation.step = "queued"
    /\ operation' = IF /\ SameReferences(operation.refs)
                       /\ SchemaAccepts(operation.action, ResolveReferences)
                    THEN [operation EXCEPT !.step = "sent"] ELSE NoOperation
    /\ UNCHANGED <<profile, reference, local, oss, nodeRepo, prefixed, writer, deleter, syncer,
                   download, disturbed, leftover, changes, trouble, operations>>

-----------------------------------------------------------------------------
(* The node runs its tasks one after the other: a deployment.sync, or the  *)
(* hook of an operation, whose preflight syncs if there is no manifest.    *)
NodeFree == download = IdleDownload /\ operation.step # "hook"

(* The listing a sync works through.                                       *)
Listed == SelectSeq(ObjectOrder, LAMBDA name : Has(oss, name))

ListObjects ==
    /\ NodeFree
    /\ Listed # <<>>
    /\ \/ download' = [step |-> "sync", left |-> Listed]
       \/ /\ operation.step = "sent" /\ ~Has(nodeRepo, "manifest")
          /\ download' = [step |-> "preflight", left |-> Listed]
    /\ UNCHANGED <<profile, reference, local, oss, nodeRepo, prefixed, writer, deleter, syncer,
                   operation, disturbed, leftover, changes, trouble, operations>>

(* A sync that fails leaves what it has installed.                         *)
Failed == IF download.step = "preflight" THEN NoOperation ELSE operation

downloadObject ==
    /\ download.left # <<>>
    /\ LET name == Head(download.left) IN
       \/ /\ Has(oss, name)
          /\ nodeRepo' = Carry(oss, nodeRepo, name)
          /\ download' = [download EXCEPT !.left = Tail(@)]
          /\ UNCHANGED <<operation, trouble>>
       \/ /\ \/ ~Has(oss, name) /\ UNCHANGED trouble
             \/ Trouble
          /\ download' = IdleDownload
          /\ operation' = Failed
          /\ UNCHANGED nodeRepo
    /\ UNCHANGED <<profile, reference, local, oss, prefixed, writer, deleter, syncer,
                   disturbed, leftover, changes, operations>>

(* Every object the manifest lists is there with the hash it lists.        *)
VerifyManifest(zone) ==
    /\ zone.manifest # NoManifest
    /\ \A f \in DOMAIN zone.manifest : zone.file[f] = zone.manifest[f]

(* writeRuntimeConfig refuses a configuration that is not the frozen one.  *)
RenderedConfig ==
    IF nodeRepo.file["config"] = operation.config
    THEN [operation EXCEPT !.step = "hook", !.used = nodeRepo.file["config"]] ELSE NoOperation

(* The end of a sync; that of a preflight goes on to the hook.             *)
VerifyAfterSync ==
    /\ download.step # "idle" /\ download.left = <<>>
    /\ download' = IdleDownload
    /\ operation' = CASE download.step = "sync" -> operation
                      [] download.step = "preflight" /\ VerifyManifest(nodeRepo) -> RenderedConfig
                      [] OTHER -> NoOperation
    /\ UNCHANGED <<profile, reference, local, oss, nodeRepo, prefixed, writer, deleter, syncer,
                   disturbed, leftover, changes, trouble, operations>>

(* With a manifest the preflight only verifies; an empty bucket ends it.   *)
preflight ==
    /\ NodeFree
    /\ operation.step = "sent"
    /\ \/ Has(nodeRepo, "manifest")
       \/ Listed = <<>>
    /\ operation' = IF VerifyManifest(nodeRepo) THEN RenderedConfig ELSE NoOperation
    /\ UNCHANGED <<profile, reference, local, oss, nodeRepo, prefixed, writer, deleter, syncer,
                   download, disturbed, leftover, changes, trouble, operations>>

HookEnds ==
    /\ operation.step = "hook"
    /\ operation' = NoOperation
    /\ UNCHANGED <<profile, reference, local, oss, nodeRepo, prefixed, writer, deleter, syncer,
                   download, disturbed, leftover, changes, trouble, operations>>

-----------------------------------------------------------------------------
SyncStep(y) ==
    \/ ListProfiles(y) \/ syncConfigProfiles(y) \/ verifySecretReferences(y)
    \/ SignManifest(y) \/ writeManifest(y) \/ WalkDir(y) \/ uploadRepository(y)
WriterStep(w) == PutSecret(w) \/ InstallSecret(w) \/ StoreReference(w)
DownloadStep == downloadObject \/ VerifyAfterSync

RepositoryNext ==
    \/ \E t \in Text : CreateConfigProfile(t) \/ UpdateConfigProfile(t)
    \/ DeleteConfigProfile \/ CreateSecretReference \/ BeginDeleteSecret \/ DeleteSecretReference
    \/ \E w \in Writer : WriterStep(w) \/ \E t \in Text : BeginOverwrite(w, t)
    \/ \E y \in Syncer : copySeedRepository(y) \/ SyncStep(y) \/ AbortSync(y)
    \/ RestartControlPlane
    \/ \E a \in Action : FreezeConfig(a)
    \/ FreezeSecrets \/ Dispatch \/ preflight \/ HookEnds
    \/ ListObjects \/ DownloadStep

(* What has begun goes on, and somebody asks for a sync again and again.   *)
RepositoryFairness ==
    /\ \A w \in Writer : WF_repositoryVars(WriterStep(w))
    /\ WF_repositoryVars(DeleteSecretReference)
    /\ \A y \in Syncer : WF_repositoryVars(copySeedRepository(y) \/ SyncStep(y))
    /\ WF_repositoryVars(ListObjects \/ DownloadStep)
    /\ WF_repositoryVars(FreezeSecrets \/ Dispatch \/ preflight \/ HookEnds)

RepositorySpec == RepositoryInit /\ [][RepositoryNext]_repositoryVars /\ RepositoryFairness

-----------------------------------------------------------------------------
(* A hook runs with the configuration that was frozen when the operation   *)
(* was created, although the files of two machines have changed since, and *)
(* never without the secrets the operation was created with: a rotation or *)
(* a deletion in between fails the target instead.                         *)
RunsFrozen == operation.step = "hook" => operation.used = operation.config /\ operation.refs = Gone

(* OverwriteSecret and DeleteSecretReference leave no file of a secret     *)
(* that the row does not know, whether the upload, the rename or the       *)
(* statement fails: unless the removal of the file fails itself, which     *)
(* both only note, two of them overlap or a restart cuts one short.  What  *)
(* a failed removal has left is put right by the next content or removal   *)
(* that gets through.                                                      *)
NoDrift ==
    SecretsQuiet /\ ~disturbed /\ ~leftover =>
        \/ local.file["secret"] = Gone
        \/ reference # Gone /\ local.file["secret"] = reference.hash

(* Once the rows stay as they are, the node has the configuration and the  *)
(* secret they ask for in a repository it accepts: unless the secret's     *)
(* file has drifted from its row, which refuses every sync.                *)
Drifted == reference # Gone /\ local.file["secret"] # reference.hash
Delivered ==
    /\ VerifyManifest(nodeRepo)
    /\ profile # Gone => nodeRepo.file["config"] = profile
    /\ reference # Gone => nodeRepo.file["secret"] = reference.hash
SyncDelivers == <>[](Delivered \/ Drifted)

(* Violated: an operation is refused at dispatch although its references   *)
(* are still those it was created with.  taskArguments promises that a     *)
(* mismatch fails the target, and the runner has code to put the           *)
(* references' secrets in place.                                           *)
RefusedOnlyIfRotated ==
    [][operation.step = "queued" /\ operation'.step = "none"
       => reference # operation.refs]_repositoryVars
=============================================================================
