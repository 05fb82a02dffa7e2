------------------------------ MODULE Registry ------------------------------
(***************************************************************************)
(* The command registry of a node: the agent watches its command           *)
(* directory, loads it and uploads what it loaded as a snapshot;           *)
(* CommandsSnapshot makes the node_command table equal to it, one command  *)
(* at a time.                                                              *)
(*                                                                         *)
(* A definition right before the one it alters is that definition with a   *)
(* plausible mistake in it and is not part of RegistryNext.                *)
(***************************************************************************)
EXTENDS Naturals, FiniteSets

CONSTANTS
    Command,     \* (command_id, command_version) pairs
    Content,     \* what the manifest and executable hashes tell apart
    Absent,      \* no such command; not a Content nor a Snap
    Snap,        \* concurrent snapshot handlers
    MaxEdit,     \* bound: changes of the directory
    RegFaults    \* the sets of faults explored

RegFaultKind == {"lost",     \* the upload does not reach the control plane
                 "late",     \* the agent gives up on a handler still running
                 "restart"}  \* the agent is restarted

ASSUME RegistryConstants ==
    /\ Absent \notin Content \cup Snap
    /\ MaxEdit \in Nat
    /\ RegFaults \subseteq SUBSET RegFaultKind

(* A directory, a loaded registry and the table are all such a function.   *)
Commands == [Command -> Content \cup {Absent}]
Present(f) == {c \in Command : f[c] # Absent}
NoCommands == [c \in Command |-> Absent]

(* A snapshot in progress: the commands still to upsert, then the rows     *)
(* selected for deletion.                                                  *)
Snapshot == [step : {"idle", "upsert", "delete"},
             commands : Commands, left : SUBSET Command]
NoSnapshot == [step |-> "idle", commands |-> NoCommands, left |-> {}]

VARIABLES
    regFaults,   \* the faults of this behaviour, chosen at the start
    directory,   \* COMMANDS_DIR
    commands,    \* the agent's loaded commands, <<>> before the first load
    registered,  \* the rows of node_command
    snap,        \* the handlers
    upload,      \* the handler the agent waits for, Absent if none
    edits,       \* changes of the directory so far
    settled      \* history: commands uploaded, and not changed in the directory since

registryVars == <<regFaults, directory, commands, registered, snap, upload, edits, settled>>

RegistryTypeOK ==
    /\ regFaults \in RegFaults
    /\ directory \in Commands
    /\ commands \in Commands \cup {<<>>}
    /\ registered \in Commands
    /\ snap \in [Snap -> Snapshot]
    /\ upload \in Snap \cup {Absent}
    /\ edits \in 0..MaxEdit
    /\ settled \subseteq Command

RegistryInit ==
    /\ regFaults \in RegFaults
    /\ directory \in Commands
    /\ commands = <<>>
    /\ registered = NoCommands
    /\ snap = [s \in Snap |-> NoSnapshot]
    /\ upload = Absent
    /\ edits = 0
    /\ settled = {}

(* A manifest is added, changed or removed, or becomes invalid.            *)
EditDirectory(c, v) ==
    /\ edits < MaxEdit
    /\ directory[c] # v
    /\ directory' = [directory EXCEPT ![c] = v]
    /\ edits' = edits + 1
    /\ settled' = settled \ {c}
    /\ UNCHANGED <<regFaults, commands, registered, snap, upload>>

-----------------------------------------------------------------------------
(* The agent.  LoadCommands takes the valid manifests; hashCommands tells  *)
(* any two registries apart, so the signature is the registry itself.      *)
LoadCommands == directory
hashCommands(f) == f

(* One tick of commandWatchLoop, or the load at the start: the signature   *)
(* is stored before the upload, whose failure is only logged.              *)
reloadCommands ==
    /\ upload = Absent
    /\ \/ /\ commands # <<>> /\ hashCommands(LoadCommands) = hashCommands(commands)
          /\ UNCHANGED <<commands, snap, upload>>
       \/ /\ commands = <<>> \/ hashCommands(LoadCommands) # hashCommands(commands)
          /\ commands' = LoadCommands
          /\ \/ \E s \in Snap :
                  /\ snap[s].step = "idle"
                  /\ snap' = [snap EXCEPT ![s] = [step |-> "upsert", commands |-> LoadCommands,
                                                  left |-> Present(LoadCommands)]]
                  /\ upload' = s
             \/ "lost" \in regFaults /\ UNCHANGED <<snap, upload>>
    /\ UNCHANGED <<regFaults, directory, registered, edits, settled>>

(* The client's timeout passes.                                            *)
GiveUpUpload ==
    /\ "late" \in regFaults
    /\ upload # Absent
    /\ upload' = Absent
    /\ UNCHANGED <<regFaults, directory, commands, registered, snap, edits, settled>>

(* The agent forgets its signature.  If it is restarted during an upload   *)
(* the handler is left alone, as when the agent gives up on it.            *)
RestartAgent ==
    /\ "restart" \in regFaults
    /\ commands # <<>>
    /\ upload # Absent => "late" \in regFaults
    /\ commands' = <<>>
    /\ upload' = Absent
    /\ UNCHANGED <<regFaults, directory, registered, snap, edits, settled>>

-----------------------------------------------------------------------------
(* CommandsSnapshot.                                                       *)

InsertNodeCommand(s, c) ==
    /\ snap[s].step = "upsert"
    /\ c \in snap[s].left
    /\ registered' = [registered EXCEPT ![c] = IF @ = Absent THEN snap[s].commands[c] ELSE @]
    /\ snap' = [snap EXCEPT ![s].left = @ \ {c}]
    /\ UNCHANGED <<regFaults, directory, commands, upload, edits, settled>>

(* One transaction: update the row of the command or insert it.            *)
UpsertNodeCommand(s, c) ==
    /\ snap[s].step = "upsert"
    /\ c \in snap[s].left
    /\ registered' = [registered EXCEPT ![c] = snap[s].commands[c]]
    /\ snap' = [snap EXCEPT ![s].left = @ \ {c}]
    /\ UNCHANGED <<regFaults, directory, commands, upload, edits, settled>>

(* DeleteCommandsNotIn reads the rows and keeps those of the snapshot ...  *)
SelectCommandsNotIn(s) ==
    /\ snap[s].step = "upsert"
    /\ snap[s].left = {}
    /\ snap' = [snap EXCEPT ![s].step = "delete",
                            ![s].left = Present(registered) \ Present(snap[s].commands)]
    /\ UNCHANGED <<regFaults, directory, commands, registered, upload, edits, settled>>

(* ... and deletes the others, one statement each.                         *)
DeleteCommandsNotIn(s, c) ==
    /\ snap[s].step = "delete"
    /\ c \in snap[s].left
    /\ registered' = [registered EXCEPT ![c] = Absent]
    /\ snap' = [snap EXCEPT ![s].left = @ \ {c}]
    /\ UNCHANGED <<regFaults, directory, commands, upload, edits, settled>>

(* The handler answers; the agent that still waits goes on.  From here on  *)
(* the commands that are still as uploaded should stay registered.         *)
AnswerSnapshot(s) ==
    /\ snap[s].step = "delete"
    /\ snap[s].left = {}
    /\ snap' = [snap EXCEPT ![s] = NoSnapshot]
    /\ upload' = IF upload = s THEN Absent ELSE upload
    /\ settled' = settled \cup {c \in Present(directory) : snap[s].commands[c] = directory[c]}
    /\ UNCHANGED <<regFaults, directory, commands, registered, edits>>

(* Nobody waits any more: the request's context is cancelled.              *)
AbortSnapshot(s) ==
    /\ snap[s].step # "idle"
    /\ upload # s
    /\ snap' = [snap EXCEPT ![s] = NoSnapshot]
    /\ UNCHANGED <<regFaults, directory, commands, registered, upload, edits, settled>>

SnapshotStep(s) ==
    \/ \E c \in Command : UpsertNodeCommand(s, c) \/ DeleteCommandsNotIn(s, c)
    \/ SelectCommandsNotIn(s) \/ AnswerSnapshot(s)

RegistryNext ==
    \/ \E c \in Command, v \in Content \cup {Absent} : EditDirectory(c, v)
    \/ reloadCommands \/ GiveUpUpload \/ RestartAgent
    \/ \E s \in Snap : SnapshotStep(s) \/ AbortSnapshot(s)

RegistrySpec == RegistryInit /\ [][RegistryNext]_registryVars

-----------------------------------------------------------------------------
(* A command that stays in the directory as it was uploaded stays          *)
(* registered: later snapshots, for other commands or after a restart,     *)
(* never take it away, not even for the moment between their statements.   *)
StaysRegistered == \A c \in settled : registered[c] = directory[c]

(* Without faults the table is the directory soon after its last change.   *)
RegistryConverges == <>[](registered = directory)

(* The control plane's table follows the agent's directory, as long as no  *)
(* upload is given up on, and in the end if none gets lost.                *)
RegistryFollows ==
    "late" \notin regFaults => /\ []StaysRegistered
                               /\ regFaults = {} => RegistryConverges
=============================================================================
