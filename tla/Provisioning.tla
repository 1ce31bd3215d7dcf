---------------------------- MODULE Provisioning ----------------------------
(***************************************************************************)
(* How a PUF node comes to be known to puf_server.py: the node's first     *)
(* boots, register_puf_node.py and the registry file, the tool             *)
(* provision_server_ref.py with the identity file and the NVS images, and  *)
(* what a server that starts finds (RotHandshake models its sessions).     *)
(*                                                                         *)
(* A step of a tool is what lies between two accesses to a file, and a     *)
(* tool may be killed between any two.                                     *)
(***************************************************************************)
EXTENDS Naturals

CONSTANTS
  Nodes, Ids,      \* the devices, and the id_a they may be registered under
  Placeholder,     \* the id_a of a node that has none in its NVS
  Runs,            \* invocations of register_puf_node.py that may overlap
  MaxKey, MaxCalls, MaxIdB,  \* bounds: keys per node, register calls, id_b made
  Other,           \* the entry of a device that is not in Nodes
  None, Torn       \* nothing there; a file that was truncated and not written

ASSUME ProvisioningAssumption ==
  /\ Placeholder \in Ids
  /\ MaxKey \in Nat /\ MaxCalls \in Nat /\ MaxIdB \in Nat
  /\ None # Torn /\ Other # None
  /\ {None, Other} \cap [node : Nodes, key : Nat, vb : Nat] = {}

VARIABLES
  registry,   \* puf_node_registry.json: an entry or None for every id_a, or Torn
  saved,      \* its last complete content (history)
  run,        \* the invocations under way
  identity,   \* puf_server_identity.json: an id_b, None or Torn
  writing,    \* the id_b provision_server_ref.py is about to write, or None
  note,       \* the follow-up command printed for each node
  image,      \* the NVS image built for each node
  key,        \* the enrolment in each node's NVS, 0 for none
  ref,        \* the server reference in each node's NVS, and how it got there
  shown,      \* the keys each node has printed
  keys, vbs, idbs, \* how many keys, V_B and id_b were made
  calls       \* how often register_puf_node.py was called

files == <<registry, saved, run>>
prov == <<identity, writing, note, image>>
node == <<key, ref, shown>>
made == <<keys, vbs, idbs, calls>>
vars == <<registry, saved, run, identity, writing, note, image, key, ref, shown,
          keys, vbs, idbs, calls>>

Nothing == [n \in Nodes |-> None]

Init ==
  /\ registry \in [Ids -> {None, Other}] /\ saved = registry
  /\ run = [r \in Runs |-> None]
  /\ identity = None /\ writing = None /\ note = Nothing /\ image = Nothing
  /\ key = [n \in Nodes |-> 0] /\ ref = Nothing /\ shown = [n \in Nodes |-> {}]
  /\ keys = [n \in Nodes |-> 0] /\ vbs = 0 /\ idbs = 0 /\ calls = 0

(***************************************************************************)
(* The node: enrolment, the export, and what is written into its NVS.      *)
(***************************************************************************)
(* A boot without helper data makes a new key pair. *)
Enrol(n) ==
  /\ key[n] = 0 /\ keys[n] < MaxKey
  /\ keys' = [keys EXCEPT ![n] = @ + 1]
  /\ key' = [key EXCEPT ![n] = keys'[n]]
  /\ UNCHANGED <<files, prov, ref, shown, vbs, idbs, calls>>

(* The export is printed by the boots that find no server reference. *)
\* Mutant: it is printed by every boot.
MutExport(n) ==
  /\ key[n] # 0
  /\ shown' = [shown EXCEPT ![n] = @ \cup {key[n]}]
  /\ UNCHANGED <<files, prov, key, ref, made>>
Export(n) ==
  /\ key[n] # 0 /\ ref[n] = None
  /\ shown' = [shown EXCEPT ![n] = @ \cup {key[n]}]
  /\ UNCHANGED <<files, prov, key, ref, made>>

Pinned(n, id_a, by) ==
  [id_b |-> image[n].id_b, vb |-> image[n].vb, id_a |-> id_a, by |-> by]

(* esptool write_flash: the image replaces the NVS, the enrolment with it. *)
Flash(n) ==
  /\ image[n] # None
  /\ ref' = [ref EXCEPT ![n] = Pinned(n, image[n].id_a, "image")]
  /\ key' = [key EXCEPT ![n] = 0]
  /\ UNCHANGED <<files, prov, shown, made>>

(* The manual write for bring-up that app_main's comment names, as         *)
(* rot_identity_save_server_ref does it: id_b and V_B are set in the live  *)
(* NVS, next to the enrolment and an id_a that is there.  Two blobs: the   *)
(* power may go after the first, and an id_b alone is no reference.        *)
LiveSave(n) ==
  /\ image[n] # None
  /\ \/ ref' = [ref EXCEPT ![n] =
                  Pinned(n, IF ref[n] = None THEN None ELSE ref[n].id_a, "live")]
     \/ ref[n] # None /\ ref' = [ref EXCEPT ![n] = [@ EXCEPT !.id_b = image[n].id_b]]
  /\ UNCHANGED <<files, prov, key, shown, made>>

EraseFlash(n) ==
  /\ key' = [key EXCEPT ![n] = 0] /\ ref' = [ref EXCEPT ![n] = None]
  /\ UNCHANGED <<files, prov, shown, made>>

(***************************************************************************)
(* register_puf_node.py: load the file, change one entry, save the file.   *)
(***************************************************************************)
\* Mutant: a file that does not parse counts as an empty registry.
MutLoaded == IF registry = Torn THEN [i \in Ids |-> None] ELSE registry
Loaded == registry

Begin(r, n, id, entry) ==
  /\ run[r] = None /\ Loaded # Torn
  /\ calls < MaxCalls /\ calls' = calls + 1
  /\ run' = [run EXCEPT ![r] = [step |-> "loaded", copy |-> Loaded, overlapped |-> FALSE,
                                of |-> n, id |-> id, entry |-> entry]]
  /\ UNCHANGED <<registry, saved, prov, node, keys, idbs>>

(* A key the node printed, with a fresh V_B or, by --shs-b, an earlier one. *)
Register(r, n, id) ==
  \E k \in shown[n], vb \in 1 .. vbs + 1 :
    /\ vbs' = IF vb > vbs THEN vb ELSE vbs
    /\ Begin(r, n, id, [node |-> n, key |-> k, vb |-> vb])

Remove(r, n, id) ==
  /\ Loaded # Torn => Loaded[id] # None
  /\ Begin(r, n, id, None) /\ UNCHANGED vbs

(* open(path, "w"): from here to the end of the write the file is torn. *)
Others(r, rs) ==
  [s \in Runs |-> IF s # r /\ rs[s] # None THEN [rs[s] EXCEPT !.overlapped = TRUE]
                                           ELSE rs[s]]
Truncate(r) ==
  /\ run[r] # None /\ run[r].step = "loaded"
  /\ registry' = Torn
  /\ run' = Others(r, [run EXCEPT ![r].step = "truncated"])
  /\ UNCHANGED <<saved, prov, node, made>>

Changed(r) == [run[r].copy EXCEPT ![run[r].id] = run[r].entry]

(* The command printed after the save, with the id_b of the moment; none   *)
(* when the identity file does not parse. *)
FollowUp(r) ==
  IF run[r].entry = None \/ identity = Torn THEN note
  ELSE [note EXCEPT ![run[r].of] =
          [id_b |-> identity, vb |-> run[r].entry.vb, id_a |-> run[r].id]]

(* What another invocation wrote since the truncation shows through behind *)
(* a shorter text. *)
Write(r) ==
  /\ run[r] # None /\ run[r].step = "truncated"
  /\ registry' \in {Changed(r)} \cup (IF registry = Torn THEN {} ELSE {Torn})
  /\ saved' = IF registry' = Torn THEN saved ELSE registry'
  /\ note' = FollowUp(r)
  /\ run' = Others(r, [run EXCEPT ![r] = None])
  /\ UNCHANGED <<identity, writing, image, node, made>>

KillRun(r) ==
  /\ run[r] # None
  /\ run' = [run EXCEPT ![r] = None]
  /\ UNCHANGED <<registry, saved, prov, node, made>>

(***************************************************************************)
(* provision_server_ref.py: build the image, then rewrite the identity.    *)
(***************************************************************************)
\* Mutant: --id-b goes into the image only.
MutIdB(given) == idbs + 1
IdB(given) == IF given = None THEN idbs + 1 ELSE given

(* As printed for node n, --id-a added or not.  Where the printed command  *)
(* has no id_b, it is left out, so that the tool makes one, or one that an *)
(* earlier run made is filled in. *)
Given(n) == IF note[n].id_b # None THEN {note[n].id_b} ELSE {None} \cup 1 .. idbs

Provision(n) ==
  /\ writing = None /\ note[n] # None
  /\ \E given \in Given(n), id \in {note[n].id_a, None} :
       /\ image' = [image EXCEPT ![n] =
                      [id_b |-> IF given = None THEN idbs + 1 ELSE given,
                       vb |-> note[n].vb, id_a |-> id]]
       /\ writing' = IdB(given)
       /\ given = None => idbs < MaxIdB
       /\ idbs' = IF given = None THEN idbs + 1 ELSE idbs
  /\ UNCHANGED <<files, identity, note, node, keys, vbs, calls>>

(* The first run of all, without arguments: its image is for no node. *)
Establish ==
  /\ writing = None /\ idbs < MaxIdB
  /\ writing' = idbs + 1 /\ idbs' = idbs + 1
  /\ UNCHANGED <<files, identity, note, image, node, keys, vbs, calls>>

TruncateIdentity ==
  /\ writing # None
  /\ identity' = Torn
  /\ UNCHANGED <<files, writing, note, image, node, made>>

WriteIdentity ==
  /\ writing # None /\ identity = Torn
  /\ identity' = writing /\ writing' = None
  /\ UNCHANGED <<files, note, image, node, made>>

KillProvision ==
  /\ writing # None /\ writing' = None
  /\ UNCHANGED <<files, identity, note, image, node, made>>

Next ==
  \/ \E n \in Nodes : \/ Enrol(n) \/ Export(n) \/ Flash(n) \/ LiveSave(n)
                      \/ EraseFlash(n) \/ Provision(n)
  \/ \E r \in Runs : \/ \E n \in Nodes, id \in Ids : Register(r, n, id) \/ Remove(r, n, id)
                     \/ Truncate(r) \/ Write(r) \/ KillRun(r)
  \/ Establish \/ TruncateIdentity \/ WriteIdentity \/ KillProvision

Spec == Init /\ [][Next]_vars

(***************************************************************************)
(* Properties.                                                             *)
(***************************************************************************)
Keys == 1 .. MaxKey
Vbs == 1 .. MaxCalls
IdBs == 1 .. MaxIdB
Device == [node : Nodes, key : Keys, vb : Vbs]
Entry == Device \cup {Other}
Registry == [Ids -> Entry \cup {None}]
Run == [step : {"loaded", "truncated"}, copy : Registry, overlapped : BOOLEAN,
        of : Nodes, id : Ids, entry : Device \cup {None}]
Note == [id_b : IdBs \cup {None}, vb : Vbs, id_a : Ids]
Image == [id_b : IdBs, vb : Vbs, id_a : Ids \cup {None}]
Reference == [id_b : IdBs, vb : Vbs, id_a : Ids \cup {None}, by : {"image", "live"}]

TypeOK ==
  /\ registry \in Registry \cup {Torn} /\ saved \in Registry
  /\ run \in [Runs -> Run \cup {None}]
  /\ identity \in IdBs \cup {None, Torn} /\ writing \in IdBs \cup {None}
  /\ note \in [Nodes -> Note \cup {None}]
  /\ image \in [Nodes -> Image \cup {None}] /\ ref \in [Nodes -> Reference \cup {None}]
  /\ key \in [Nodes -> 0 .. MaxKey] /\ shown \in [Nodes -> SUBSET Keys]
  /\ keys \in [Nodes -> 0 .. MaxKey] /\ vbs \in 0 .. MaxCalls /\ idbs \in 0 .. MaxIdB
  /\ calls \in vbs .. MaxCalls

(* puf_server.py starts unless the identity is missing or a file is torn;  *)
(* a missing registry is an empty one. *)
ServerStarts == identity \notin {None, Torn} /\ registry # Torn

(* What RotHandshake asks of a node and a server that has these files: the *)
(* entry under the node's id_a has its key and its V_B, and id_b is the    *)
(* pinned one. *)
IdA(n) == IF ref[n].id_a = None THEN Placeholder ELSE ref[n].id_a
Served(n) ==
  /\ ServerStarts /\ ref[n] # None /\ key[n] # 0
  /\ identity = ref[n].id_b
  /\ registry[IdA(n)] = [node |-> n, key |-> key[n], vb |-> ref[n].vb]

(* A node whose server reference came from a flashed image is never        *)
(* served: the image erased the key that was registered, and the boots     *)
(* that follow make a new one and do not print it, the reference being     *)
(* there.  (Steps 1 to 4 of the node's README, run in that order.)         *)
FlashedNeverServed ==
  \A n \in Nodes : ref[n] # None /\ ref[n].by = "image" => ~Served(n)

(* Only an invocation that overlaps another one can lose or bring back an  *)
(* entry it is not about, a killed one included: what a save leaves        *)
(* differs from the last complete content in the named id_a alone.         *)
LostOnlyByOverlap ==
  [][\A r \in Runs : Write(r) /\ ~run[r].overlapped =>
       \A i \in Ids \ {run[r].id} : registry'[i] = saved[i]]_vars

(* As long as the tool was left to make an id_b once, the identity file    *)
(* and everything pinned or about to be pinned agree, in whatever order    *)
(* the tools ran and were killed. *)
OneIdentity ==
  idbs <= 1 =>
    /\ identity \in {1, None, Torn}
    /\ \A n \in Nodes : /\ image[n] # None => image[n].id_b = 1
                        /\ ref[n] # None => ref[n].id_b = 1
=============================================================================
