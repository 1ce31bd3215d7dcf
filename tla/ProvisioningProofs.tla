------------------------- MODULE ProvisioningProofs -------------------------
(***************************************************************************)
(* Theorems of Provisioning, for every number of nodes, identifiers and    *)
(* overlapping invocations of the tools, killed ones included.             *)
(***************************************************************************)
EXTENDS Provisioning, TLAPS

(* Every id_b that is written, printed, built in or pinned was made. *)
IdsMade ==
  /\ identity \in 1 .. idbs \cup {None, Torn}
  /\ writing \in 1 .. idbs \cup {None}
  /\ \A n \in Nodes :
       /\ note[n] # None => note[n].id_b \in 1 .. idbs \cup {None}
       /\ image[n] # None => image[n].id_b \in 1 .. idbs
       /\ ref[n] # None => ref[n].id_b \in 1 .. idbs

(* A registered key was shown by its node. *)
Shown(entry) ==
  entry \notin {None, Other} => entry.key \in shown[entry.node]

KeysShown ==
  /\ registry # Torn => \A i \in Ids : Shown(registry[i])
  /\ \A r \in Runs : run[r] # None =>
       Shown(run[r].entry) /\ \A i \in Ids : Shown(run[r].copy[i])

(* A key that is new was not shown yet, and with a flashed reference there *)
(* is no showing it. *)
KeysFresh ==
  \A n \in Nodes :
    /\ shown[n] \subseteq 1 .. keys[n]
    /\ key[n] <= keys[n]
    /\ ref[n] # None /\ ref[n].by = "image" => key[n] \notin shown[n]

(* An invocation nobody interfered with works on what the file held last.  *)
CopiesCurrent ==
  /\ registry # Torn => registry = saved
  /\ \A r \in Runs : run[r] # None /\ ~run[r].overlapped =>
       /\ run[r].copy = saved
       /\ run[r].step = "truncated" => registry = Torn

IInv ==
  /\ TypeOK
  /\ IdsMade
  /\ KeysShown
  /\ KeysFresh
  /\ CopiesCurrent

LEMMA InitIInv == Init => IInv
<1> SUFFICES ASSUME Init PROVE IInv
  OBVIOUS
<1> USE ProvisioningAssumption DEF Init, Nothing
<1>1. TypeOK
  BY DEF TypeOK, Registry, Entry
<1>2. IdsMade
  BY DEF IdsMade
<1>3. KeysShown
  BY DEF KeysShown, Shown
<1>4. KeysFresh /\ CopiesCurrent
  BY DEF KeysFresh, CopiesCurrent
<1> QED
  BY <1>1, <1>2, <1>3, <1>4 DEF IInv

(* The conjuncts of TypeOK, by what writes them. *)
FilesOK == /\ registry \in Registry \cup {Torn} /\ saved \in Registry
           /\ run \in [Runs -> Run \cup {None}]
ProvOK == /\ identity \in IdBs \cup {None, Torn} /\ writing \in IdBs \cup {None}
          /\ note \in [Nodes -> Note \cup {None}]
          /\ image \in [Nodes -> Image \cup {None}]
NodeOK == /\ key \in [Nodes -> 0 .. MaxKey] /\ ref \in [Nodes -> Reference \cup {None}]
          /\ shown \in [Nodes -> SUBSET Keys]
MadeOK == /\ keys \in [Nodes -> 0 .. MaxKey] /\ vbs \in 0 .. MaxCalls /\ idbs \in 0 .. MaxIdB
          /\ calls \in vbs .. MaxCalls

LEMMA Parts == TypeOK <=> FilesOK /\ ProvOK /\ NodeOK /\ MadeOK
  BY DEF TypeOK, FilesOK, ProvOK, NodeOK, MadeOK

LEMMA PartsNext == FilesOK' /\ ProvOK' /\ NodeOK' /\ MadeOK' => TypeOK'
  BY DEF TypeOK, FilesOK, ProvOK, NodeOK, MadeOK

(***************************************************************************)
(* The node.                                                               *)
(***************************************************************************)
(* What the node does leaves the files and what was printed of ids alone.  *)
LEMMA NodeFrame ==
  ASSUME IInv, UNCHANGED <<files, prov, vbs, idbs, calls>>
  PROVE  /\ FilesOK' /\ ProvOK'
         /\ (identity \in 1 .. idbs \cup {None, Torn} /\ writing \in 1 .. idbs \cup {None})'
         /\ CopiesCurrent'
  BY Parts DEF IInv, files, prov, FilesOK, ProvOK, IdsMade, CopiesCurrent

(* Shown survives when nothing is forgotten. *)
LEMMA ShownGrows ==
  ASSUME IInv, UNCHANGED files, \A n \in Nodes : shown[n] \subseteq shown'[n]
  PROVE  KeysShown'
<1>1. ASSUME NEW e \in Entry \cup {None}, Shown(e) PROVE Shown(e)'
  BY <1>1 DEF Shown, Entry, Device
<1>2. FilesOK
  BY Parts DEF IInv
<1>3. ASSUME registry # Torn, NEW i \in Ids PROVE Shown(registry[i])'
  BY <1>1, <1>2, <1>3 DEF FilesOK, Registry, IInv, KeysShown, files, Shown
<1>4. ASSUME NEW r \in Runs, run[r] # None
      PROVE  Shown(run[r].entry)' /\ \A i \in Ids : Shown(run[r].copy[i])'
  <2>1. run[r] \in Run
    BY <1>2, <1>4 DEF FilesOK
  <2>2. /\ run[r].entry \in Entry \cup {None} /\ Shown(run[r].entry)
        /\ \A i \in Ids : run[r].copy[i] \in Entry \cup {None} /\ Shown(run[r].copy[i])
    BY <2>1, <1>4 DEF Run, Registry, Entry, IInv, KeysShown
  <2> QED
    BY <1>1, <2>2 DEF files, Shown
<1> QED
  BY <1>3, <1>4 DEF KeysShown, files, Shown

LEMMA EnrolKeeps ==
  ASSUME IInv, NEW n \in Nodes, Enrol(n)
  PROVE  IInv'
<1> USE DEF Enrol, IInv
<1>1. FilesOK' /\ ProvOK' /\ CopiesCurrent' /\ KeysShown'
  BY NodeFrame, ShownGrows
<1>2. NodeOK /\ MadeOK
  BY Parts
<1>3. NodeOK' /\ MadeOK'
  BY <1>2, ProvisioningAssumption DEF NodeOK, MadeOK
<1>4. IdsMade'
  BY DEF IdsMade, prov
<1>5. KeysFresh'
  <2> SUFFICES ASSUME NEW x \in Nodes
               PROVE  /\ shown[x] \subseteq 1 .. keys'[x] /\ key'[x] <= keys'[x]
                      /\ ref[x] # None /\ ref[x].by = "image" => key'[x] \notin shown[x]
    BY DEF KeysFresh
  <2>1. /\ keys[x] \in Nat /\ key[x] \in Nat /\ shown[x] \subseteq 1 .. keys[x]
        /\ key[x] <= keys[x]
        /\ ref[x] # None /\ ref[x].by = "image" => key[x] \notin shown[x]
    BY <1>2, ProvisioningAssumption DEF NodeOK, MadeOK, KeysFresh
  <2>2. CASE x = n
    <3>1. keys'[x] = keys[x] + 1 /\ key'[x] = keys[x] + 1
      BY <1>2, <2>2 DEF NodeOK, MadeOK
    <3> QED
      BY <2>1, <3>1
  <2>3. CASE x # n
    BY <1>2, <2>1, <2>3 DEF NodeOK, MadeOK
  <2> QED
    BY <2>2, <2>3
<1> QED
  BY <1>1, <1>3, <1>4, <1>5, PartsNext

LEMMA ExportKeeps ==
  ASSUME IInv, NEW n \in Nodes, Export(n)
  PROVE  IInv'
<1> USE DEF Export, IInv, made
<1>1. NodeOK /\ MadeOK
  BY Parts
<1>2. /\ shown' \in [Nodes -> SUBSET Keys]
      /\ \A x \in Nodes : shown'[x] = IF x = n THEN shown[n] \cup {key[n]} ELSE shown[x]
  BY <1>1, ProvisioningAssumption DEF NodeOK, Keys
<1>3. FilesOK' /\ ProvOK' /\ CopiesCurrent' /\ KeysShown'
  BY <1>2, NodeFrame, ShownGrows
<1>4. NodeOK' /\ MadeOK'
  BY <1>1, <1>2 DEF NodeOK, MadeOK
<1>5. IdsMade'
  BY DEF IdsMade, prov
<1>6. KeysFresh'
  BY <1>1, <1>2, ProvisioningAssumption DEF KeysFresh, NodeOK, MadeOK
<1> QED
  BY <1>3, <1>4, <1>5, <1>6, PartsNext

(* Flash, LiveSave and EraseFlash: a reference built from the image, or    *)
(* none, and a key that is erased unless the NVS was live. *)
LEMMA NvsKeeps ==
  ASSUME IInv, NEW n \in Nodes, Flash(n) \/ LiveSave(n) \/ EraseFlash(n)
  PROVE  IInv'
<1> USE DEF IInv, made, Flash, LiveSave, EraseFlash
<1>1. NodeOK /\ MadeOK /\ ProvOK
  BY Parts
<1>2. FilesOK' /\ ProvOK' /\ CopiesCurrent' /\ KeysShown'
  BY NodeFrame, ShownGrows
<1>3. /\ key' \in [Nodes -> 0 .. MaxKey]
      /\ \A x \in Nodes : key'[x] \in {0, key[x]}
      /\ \A x \in Nodes \ {n} : key'[x] = key[x]
  BY <1>1, ProvisioningAssumption DEF NodeOK
<1>4. PICK r \in Reference \cup {None} :
        /\ ref' = [ref EXCEPT ![n] = r]
        /\ r # None => image[n] # None /\ r.id_b = image[n].id_b
        /\ r # None /\ r.by = "image" =>
             \/ key'[n] = 0
             \/ key'[n] = key[n] /\ ref[n] # None /\ ref[n].by = "image"
  <2>1. CASE EraseFlash(n)
    BY <2>1
  <2>2. CASE Flash(n)
    <3>1. image[n] \in Image
      BY <1>1, <2>2 DEF ProvOK
    <3>2. Pinned(n, image[n].id_a, "image") \in Reference
      BY <3>1 DEF Pinned, Image, Reference
    <3>3. key'[n] = 0 /\ Pinned(n, image[n].id_a, "image").id_b = image[n].id_b
      BY <1>1, <2>2 DEF NodeOK, Pinned
    <3> QED
      BY <2>2, <3>2, <3>3
  <2>3. ASSUME image[n] # None,
               ref' = [ref EXCEPT ![n] =
                         Pinned(n, IF ref[n] = None THEN None ELSE ref[n].id_a, "live")]
        PROVE  \E r \in Reference :
                 ref' = [ref EXCEPT ![n] = r] /\ r.id_b = image[n].id_b /\ r.by = "live"
    <3>1. image[n] \in Image
      BY <1>1, <2>3 DEF ProvOK
    <3> DEFINE old == IF ref[n] = None THEN None ELSE ref[n].id_a
    <3>2. old \in Ids \cup {None}
      BY <1>1 DEF NodeOK, Reference
    <3> HIDE DEF old
    <3>3. /\ Pinned(n, old, "live") \in Reference
          /\ Pinned(n, old, "live").by = "live"
          /\ Pinned(n, old, "live").id_b = image[n].id_b
      BY <3>1, <3>2 DEF Pinned, Image, Reference
    <3>4. ref' = [ref EXCEPT ![n] = Pinned(n, old, "live")]
      BY <2>3 DEF old
    <3> QED
      BY <3>3, <3>4
  <2>4. ASSUME image[n] # None, ref[n] # None,
               ref' = [ref EXCEPT ![n] = [ref[n] EXCEPT !.id_b = image[n].id_b]]
        PROVE  \E r \in Reference :
                 ref' = [ref EXCEPT ![n] = r] /\ r.id_b = image[n].id_b /\ r.by = ref[n].by
    <3>1. image[n].id_b \in IdBs /\ ref[n] \in Reference
      BY <1>1, <2>4 DEF ProvOK, NodeOK, Image
    <3> DEFINE new == [ref[n] EXCEPT !.id_b = image[n].id_b]
    <3>2. new \in Reference /\ new.id_b = image[n].id_b /\ new.by = ref[n].by
      BY <3>1 DEF Reference
    <3>3. ref' = [ref EXCEPT ![n] = new]
      BY <2>4
    <3> HIDE DEF new
    <3> QED
      BY <3>2, <3>3
  <2>5. CASE LiveSave(n)
    <3>1. image[n] # None /\ key' = key /\ "live" # "image"
      BY <2>5 DEF files, prov
    <3>2. \/ ref' = [ref EXCEPT ![n] =
                       Pinned(n, IF ref[n] = None THEN None ELSE ref[n].id_a, "live")]
          \/ /\ ref[n] # None
             /\ ref' = [ref EXCEPT ![n] = [ref[n] EXCEPT !.id_b = image[n].id_b]]
      BY <2>5
    <3> HIDE DEF LiveSave, IInv
    <3> QED
      BY <2>3, <2>4, <3>1, <3>2
  <2> QED
    BY <2>1, <2>2, <2>5
<1>5. NodeOK' /\ MadeOK'
  BY <1>1, <1>3, <1>4 DEF NodeOK, MadeOK
<1>6. \A x \in Nodes : ref'[x] = IF x = n THEN r ELSE ref[x]
  BY <1>1, <1>4 DEF NodeOK
<1>7. IdsMade'
  BY <1>4, <1>6 DEF IdsMade, prov
<1>8. KeysFresh'
  <2> SUFFICES ASSUME NEW x \in Nodes
               PROVE  /\ shown[x] \subseteq 1 .. keys[x] /\ key'[x] <= keys[x]
                      /\ ref'[x] # None /\ ref'[x].by = "image" => key'[x] \notin shown[x]
    BY DEF KeysFresh
  <2>1. /\ keys[x] \in Nat /\ shown[x] \subseteq 1 .. keys[x] /\ key[x] <= keys[x]
        /\ ref[x] # None /\ ref[x].by = "image" => key[x] \notin shown[x]
    BY <1>1, ProvisioningAssumption DEF MadeOK, KeysFresh
  <2>2. key'[x] <= keys[x]
    BY <1>3, <2>1
  <2>3. ASSUME ref'[x] # None, ref'[x].by = "image" PROVE key'[x] \notin shown[x]
    <3>1. CASE x = n
      BY <1>4, <1>6, <2>1, <2>3, <3>1
    <3>2. CASE x # n
      BY <1>3, <1>6, <2>1, <2>3, <3>2
    <3> QED
      BY <3>1, <3>2
  <2> QED
    BY <2>1, <2>2, <2>3
<1> QED
  BY <1>2, <1>5, <1>7, <1>8, PartsNext

(***************************************************************************)
(* The registry tool.                                                      *)
(***************************************************************************)
LEMMA RunTyped ==
  ASSUME IInv, NEW r \in Runs, run[r] # None
  PROVE  /\ run[r].step \in {"loaded", "truncated"} /\ run[r].overlapped \in BOOLEAN
         /\ run[r].copy \in Registry /\ run[r].of \in Nodes /\ run[r].id \in Ids
         /\ run[r].entry \in Device \cup {None}
         /\ run[r] \in Run
<1>1. run[r] \in Run
  BY Parts DEF IInv, FilesOK
<1> QED
  BY <1>1 DEF Run

(* What the registry tool leaves alone. *)
LEMMA ToolFrame ==
  ASSUME IInv, UNCHANGED <<identity, writing, image, node, keys, idbs>>
  PROVE  /\ NodeOK' /\ KeysFresh'
         /\ note' = note => IdsMade' /\ ProvOK'
         /\ \A e : Shown(e) => Shown(e)'
  BY Parts DEF IInv, node, NodeOK, KeysFresh, IdsMade, ProvOK, Shown

LEMMA BeginKeeps ==
  ASSUME IInv, NEW r \in Runs, NEW n \in Nodes, NEW id \in Ids,
         NEW entry \in Device \cup {None}, Shown(entry), Begin(r, n, id, entry),
         vbs' \in vbs .. vbs + 1
  PROVE  IInv'
<1> USE DEF IInv
<1>1. FilesOK /\ MadeOK
  BY Parts
<1>2. registry # Torn /\ registry \in Registry /\ saved = registry
  BY <1>1 DEF Begin, Loaded, FilesOK, CopiesCurrent
<1> DEFINE new == [step |-> "loaded", copy |-> registry, overlapped |-> FALSE,
                   of |-> n, id |-> id, entry |-> entry]
<1>3. new \in Run
  BY <1>2 DEF Run
<1>4. /\ run' \in [Runs -> Run \cup {None}]
      /\ \A s \in Runs : run'[s] = IF s = r THEN new ELSE run[s]
  BY <1>1, <1>3 DEF Begin, Loaded, FilesOK
<1>5. /\ new.step = "loaded" /\ new.copy = registry /\ ~new.overlapped /\ new.entry = entry
      /\ "loaded" # "truncated"
  OBVIOUS
<1> HIDE DEF new
<1>6. FilesOK'
  BY <1>1, <1>4 DEF FilesOK, Begin
<1>7. MadeOK'
  BY <1>1, ProvisioningAssumption DEF MadeOK, Begin
<1>8. NodeOK' /\ KeysFresh' /\ IdsMade' /\ ProvOK'
  BY ToolFrame DEF Begin, prov
<1>9. KeysShown'
  <2>1. \A e : Shown(e) => Shown(e)'
    BY ToolFrame DEF Begin, prov
  <2> QED
    BY <1>2, <1>4, <1>5, <2>1 DEF KeysShown, Begin
<1>10. CopiesCurrent'
  BY <1>2, <1>4, <1>5 DEF CopiesCurrent, Begin
<1> QED
  BY <1>6, <1>7, <1>8, <1>9, <1>10, PartsNext

LEMMA RegisterKeeps ==
  ASSUME IInv, NEW r \in Runs, NEW n \in Nodes, NEW id \in Ids, Register(r, n, id)
  PROVE  IInv'
<1>1. NodeOK /\ MadeOK
  BY Parts DEF IInv
<1>2. PICK k \in shown[n], vb \in 1 .. vbs + 1 :
        /\ vbs' = IF vb > vbs THEN vb ELSE vbs
        /\ Begin(r, n, id, [node |-> n, key |-> k, vb |-> vb])
  BY DEF Register
<1> DEFINE e == [node |-> n, key |-> k, vb |-> vb]
<1>3. vbs' \in vbs .. vbs + 1
  BY <1>1, <1>2, ProvisioningAssumption DEF MadeOK
<1>4. e \in Device
  <2>1. k \in Keys
    BY <1>1 DEF NodeOK
  <2>2. vb \in Vbs
    BY <1>1, <1>2, ProvisioningAssumption DEF MadeOK, Begin, Vbs
  <2> QED
    BY <2>1, <2>2 DEF Device
<1>5. Shown(e)
  BY DEF Shown
<1>6. Begin(r, n, id, e)
  BY <1>2
<1> HIDE DEF e
<1> QED
  BY <1>3, <1>4, <1>5, <1>6, BeginKeeps

LEMMA RemoveKeeps ==
  ASSUME IInv, NEW r \in Runs, NEW n \in Nodes, NEW id \in Ids, Remove(r, n, id)
  PROVE  IInv'
<1>1. Begin(r, n, id, None) /\ Shown(None) /\ vbs' \in vbs .. vbs + 1
  BY Parts, ProvisioningAssumption DEF Remove, Shown, IInv, MadeOK
<1> QED
  BY <1>1, BeginKeeps

LEMMA TruncateKeeps ==
  ASSUME IInv, NEW r \in Runs, Truncate(r)
  PROVE  IInv'
<1> USE DEF IInv, Truncate
<1>1. FilesOK /\ MadeOK
  BY Parts
<1> DEFINE new == [run[r] EXCEPT !.step = "truncated"]
<1>2. /\ new \in Run /\ new.copy = run[r].copy /\ new.overlapped = run[r].overlapped
      /\ new.entry = run[r].entry
  BY RunTyped DEF Run
<1>3. \A s \in Runs : run'[s] = IF s = r THEN new
                                ELSE IF run[s] # None THEN [run[s] EXCEPT !.overlapped = TRUE]
                                ELSE None
  BY <1>1 DEF FilesOK, Others
<1> HIDE DEF new
<1>4. ASSUME NEW s \in Runs, s # r, run[s] # None
      PROVE  /\ run'[s] \in Run /\ run'[s].overlapped
             /\ run'[s].copy = run[s].copy /\ run'[s].entry = run[s].entry
  <2>1. run[s] \in Run
    BY <1>4, RunTyped
  <2> QED
    BY <1>3, <1>4, <2>1 DEF Run
<1>5. FilesOK'
  <2>1. run' \in [Runs -> Run \cup {None}]
    <3>1. DOMAIN run' = Runs /\ run' = [s \in Runs |-> run'[s]]
      BY DEF Others
    <3> QED
      BY <1>2, <1>3, <1>4, <3>1
  <2> QED
    BY <1>1, <2>1 DEF FilesOK
<1>6. MadeOK' /\ NodeOK' /\ KeysFresh' /\ IdsMade' /\ ProvOK'
  BY <1>1, ToolFrame DEF MadeOK, made, prov
<1>7. KeysShown'
  <2>1. \A e : Shown(e) => Shown(e)'
    BY ToolFrame DEF prov, made
  <2>2. ASSUME NEW s \in Runs, run'[s] # None
        PROVE  Shown(run'[s].entry) /\ \A i \in Ids : Shown(run'[s].copy[i])
    BY <1>2, <1>3, <1>4, <2>2 DEF KeysShown
  <2>3. ASSUME NEW s \in Runs, (run[s] # None)'
        PROVE  Shown(run[s].entry)' /\ \A i \in Ids : Shown(run[s].copy[i])'
    BY <2>1, <2>2, <2>3
  <2>4. ~(registry # Torn)'
    OBVIOUS
  <2> QED
    BY <2>3, <2>4 DEF KeysShown
<1>8. CopiesCurrent'
  <2>1. ASSUME NEW s \in Runs, run'[s] # None, ~run'[s].overlapped
        PROVE  run'[s].copy = saved
    BY <1>2, <1>3, <1>4, <2>1 DEF CopiesCurrent
  <2> QED
    BY <2>1 DEF CopiesCurrent
<1> QED
  BY <1>5, <1>6, <1>7, <1>8, PartsNext

LEMMA WriteKeeps ==
  ASSUME IInv, NEW r \in Runs, Write(r)
  PROVE  IInv'
<1> USE DEF IInv, Write
<1>1. FilesOK /\ MadeOK /\ ProvOK
  BY Parts
<1>2. Changed(r) \in Registry /\ \A i \in Ids : Shown(Changed(r)[i])
  <2>1. run[r].copy \in Registry /\ run[r].entry \in Entry \cup {None}
    BY RunTyped DEF Entry
  <2>2. /\ Changed(r) \in Registry
        /\ \A i \in Ids : Changed(r)[i] = IF i = run[r].id THEN run[r].entry
                                          ELSE run[r].copy[i]
    BY <2>1 DEF Changed, Registry
  <2> QED
    BY <2>2 DEF KeysShown
<1>3. /\ registry' \in {Changed(r), Torn}
      /\ registry' # Torn => saved' = registry' /\ registry' = Changed(r)
      /\ saved' \in {saved, Changed(r)}
  OBVIOUS
<1>4. \A s \in Runs : run'[s] = IF s = r \/ run[s] = None THEN None
                                ELSE [run[s] EXCEPT !.overlapped = TRUE]
  BY <1>1 DEF FilesOK, Others
<1>5. ASSUME NEW s \in Runs, run'[s] # None
      PROVE  /\ run'[s] \in Run /\ run'[s].overlapped /\ run[s] # None
             /\ run'[s].copy = run[s].copy /\ run'[s].entry = run[s].entry
  <2>1. run[s] # None /\ run[s] \in Run
    BY <1>4, <1>5, RunTyped
  <2> QED
    BY <1>4, <1>5, <2>1 DEF Run
<1>6. FilesOK'
  <2>1. run' \in [Runs -> Run \cup {None}]
    <3>1. run' = [s \in Runs |-> run'[s]]
      BY DEF Others
    <3> QED
      BY <1>5, <3>1
  <2> QED
    BY <1>1, <1>2, <1>3, <2>1 DEF FilesOK
<1>7. MadeOK' /\ NodeOK' /\ KeysFresh'
  BY <1>1, ToolFrame DEF MadeOK, made
<1>8. ASSUME run[r].entry # None, identity # Torn
      PROVE  [id_b |-> identity, vb |-> run[r].entry.vb, id_a |-> run[r].id] \in Note
  <2>1. run[r].entry \in Device /\ run[r].id \in Ids
    BY <1>8, RunTyped
  <2> QED
    BY <1>1, <1>8, <2>1 DEF Device, Note, ProvOK
<1>9. ProvOK'
  <2>1. note' \in [Nodes -> Note \cup {None}]
    BY <1>1, <1>8 DEF FollowUp, ProvOK
  <2> QED
    BY <1>1, <2>1 DEF ProvOK
<1>10. IdsMade'
  <2>1. ASSUME NEW n \in Nodes, note'[n] # None
        PROVE  note'[n].id_b \in 1 .. idbs \cup {None}
    <3>1. note'[n] = note[n] \/ (identity # Torn /\ note'[n].id_b = identity)
      BY <1>1 DEF FollowUp, ProvOK
    <3> QED
      BY <2>1, <3>1 DEF IdsMade
  <2> QED
    BY <2>1 DEF IdsMade, made, node
<1>11. KeysShown'
  <2>1. \A e : Shown(e) => Shown(e)'
    BY ToolFrame DEF made
  <2>2. ASSUME (registry # Torn)', NEW i \in Ids PROVE Shown(registry[i])'
    BY <1>2, <1>3, <2>1, <2>2
  <2>3. ASSUME NEW s \in Runs, run'[s] # None
        PROVE  Shown(run'[s].entry) /\ \A i \in Ids : Shown(run'[s].copy[i])
    BY <1>5, <2>3 DEF KeysShown
  <2>4. ASSUME NEW s \in Runs, (run[s] # None)'
        PROVE  Shown(run[s].entry)' /\ \A i \in Ids : Shown(run[s].copy[i])'
    BY <2>1, <2>3, <2>4
  <2> QED
    BY <2>2, <2>4 DEF KeysShown
<1>12. CopiesCurrent'
  BY <1>3, <1>5 DEF CopiesCurrent
<1> QED
  BY <1>6, <1>7, <1>9, <1>10, <1>11, <1>12, PartsNext

LEMMA KillRunKeeps ==
  ASSUME IInv, NEW r \in Runs, KillRun(r)
  PROVE  IInv'
<1> USE DEF IInv, KillRun
<1>1. FilesOK /\ MadeOK
  BY Parts
<1>2. \A s \in Runs : run'[s] = IF s = r THEN None ELSE run[s]
  BY <1>1 DEF FilesOK
<1>3. FilesOK'
  BY <1>1 DEF FilesOK
<1>4. MadeOK' /\ NodeOK' /\ KeysFresh' /\ IdsMade' /\ ProvOK'
  BY <1>1, ToolFrame DEF MadeOK, made, prov
<1>5. KeysShown'
  <2>1. \A e : Shown(e) => Shown(e)'
    BY ToolFrame DEF prov, made
  <2> QED
    BY <1>2, <2>1 DEF KeysShown
<1>6. CopiesCurrent'
  BY <1>2 DEF CopiesCurrent
<1> QED
  BY <1>3, <1>4, <1>5, <1>6, PartsNext

(***************************************************************************)
(* The reference tool.                                                     *)
(***************************************************************************)
(* What the reference tool leaves alone. *)
LEMMA ReferenceFrame ==
  ASSUME IInv, UNCHANGED <<files, note, node, keys, vbs, calls>>
  PROVE  /\ FilesOK' /\ NodeOK' /\ KeysFresh' /\ CopiesCurrent' /\ KeysShown'
         /\ note' \in [Nodes -> Note \cup {None}]
         /\ keys' \in [Nodes -> 0 .. MaxKey] /\ vbs' \in 0 .. MaxCalls /\ calls' \in vbs' .. MaxCalls
<1>1. FilesOK /\ NodeOK /\ ProvOK /\ MadeOK
  BY Parts DEF IInv
<1>2. KeysShown'
  BY ShownGrows DEF node
<1>3. KeysFresh' /\ CopiesCurrent'
  BY DEF IInv, KeysFresh, CopiesCurrent, files, node
<1> QED
  BY <1>1, <1>2, <1>3 DEF FilesOK, NodeOK, ProvOK, MadeOK, files, node

LEMMA ProvisionKeeps ==
  ASSUME IInv, NEW n \in Nodes, Provision(n)
  PROVE  IInv'
<1> USE DEF IInv
<1>1. ProvOK /\ MadeOK
  BY Parts
<1>2. note[n] \in Note
  BY <1>1 DEF Provision, ProvOK
<1>3. PICK given \in Given(n), id \in {note[n].id_a, None} :
        /\ image' = [image EXCEPT ![n] =
                       [id_b |-> IF given = None THEN idbs + 1 ELSE given,
                        vb |-> note[n].vb, id_a |-> id]]
        /\ writing' = IdB(given)
        /\ given = None => idbs < MaxIdB
        /\ idbs' = IF given = None THEN idbs + 1 ELSE idbs
  BY DEF Provision
<1> DEFINE new == [id_b |-> IdB(given), vb |-> note[n].vb, id_a |-> id]
<1>4. /\ idbs \in Nat /\ idbs' \in idbs .. MaxIdB
      /\ IdB(given) \in 1 .. idbs' /\ IdB(given) \in IdBs
  <2>1. idbs \in Nat /\ idbs <= MaxIdB /\ MaxIdB \in Nat
    BY <1>1, ProvisioningAssumption DEF MadeOK
  <2>2. given = None \/ given \in 1 .. idbs
    BY <1>1, <1>2 DEF Given, Provision, IdsMade
  <2> QED
    BY <1>3, <2>1, <2>2 DEF IdB, IdBs
<1>5. new \in Image /\ new.id_b = IdB(given)
  BY <1>2, <1>3, <1>4 DEF Image, Note
<1>6. image' = [image EXCEPT ![n] = new]
  BY <1>3 DEF IdB
<1> HIDE DEF new
<1>7. /\ image' \in [Nodes -> Image \cup {None}]
      /\ \A x \in Nodes : image'[x] = IF x = n THEN new ELSE image[x]
  BY <1>1, <1>5, <1>6 DEF ProvOK
<1>8. 1 .. idbs \subseteq 1 .. idbs' /\ 1 .. idbs' \subseteq IdBs
  BY <1>4, ProvisioningAssumption DEF IdBs
<1>9. ProvOK'
  BY <1>1, <1>3, <1>4, <1>7, <1>8 DEF ProvOK, Provision
<1>10. IdsMade'
  BY <1>3, <1>4, <1>5, <1>7, <1>8 DEF IdsMade, Provision, node
<1>11. FilesOK' /\ NodeOK' /\ KeysFresh' /\ CopiesCurrent' /\ KeysShown' /\ MadeOK'
  BY <1>4, ReferenceFrame DEF Provision, MadeOK
<1> QED
  BY <1>9, <1>10, <1>11, PartsNext

LEMMA IdentityKeeps ==
  ASSUME IInv, Establish \/ TruncateIdentity \/ WriteIdentity \/ KillProvision
  PROVE  IInv'
<1> USE DEF IInv, Establish, TruncateIdentity, WriteIdentity, KillProvision, made
<1>1. ProvOK /\ MadeOK
  BY Parts
<1>2. idbs \in Nat /\ idbs' \in {idbs, idbs + 1} /\ idbs' <= MaxIdB
  BY <1>1, ProvisioningAssumption DEF MadeOK
<1>3. 1 .. idbs \subseteq 1 .. idbs' /\ 1 .. idbs' \subseteq IdBs
  BY <1>2, ProvisioningAssumption DEF IdBs
<1>4. /\ writing' \in 1 .. idbs' \cup {None}
      /\ identity' \in 1 .. idbs' \cup {None, Torn}
  BY <1>2, <1>3 DEF IdsMade
<1>5. ProvOK'
  BY <1>1, <1>3, <1>4 DEF ProvOK
<1>6. IdsMade'
  <2>1. image' = image /\ note' = note /\ ref' = ref
    BY DEF node
  <2> QED
    BY <1>3, <1>4, <2>1 DEF IdsMade
<1>7. FilesOK' /\ NodeOK' /\ KeysFresh' /\ CopiesCurrent' /\ KeysShown' /\ MadeOK'
  BY <1>2, ReferenceFrame, ProvisioningAssumption DEF MadeOK
<1> QED
  BY <1>5, <1>6, <1>7, PartsNext

(***************************************************************************)
(* The theorems.                                                           *)
(***************************************************************************)
LEMMA StepKeeps == IInv /\ [Next]_vars => IInv'
<1> SUFFICES ASSUME IInv, [Next]_vars PROVE IInv'
  OBVIOUS
<1>1. CASE UNCHANGED vars
  BY <1>1 DEF vars, IInv, TypeOK, IdsMade, KeysShown, Shown, KeysFresh, CopiesCurrent
<1>2. CASE \E n \in Nodes : \/ Enrol(n) \/ Export(n) \/ Flash(n) \/ LiveSave(n)
                            \/ EraseFlash(n) \/ Provision(n)
  BY <1>2, EnrolKeeps, ExportKeeps, NvsKeeps, ProvisionKeeps
<1>3. CASE \E r \in Runs :
             \/ \E n \in Nodes, id \in Ids : Register(r, n, id) \/ Remove(r, n, id)
             \/ Truncate(r) \/ Write(r) \/ KillRun(r)
  BY <1>3, RegisterKeeps, RemoveKeeps, TruncateKeeps, WriteKeeps, KillRunKeeps
<1>4. CASE Establish \/ TruncateIdentity \/ WriteIdentity \/ KillProvision
  BY <1>4, IdentityKeeps
<1> QED
  BY <1>1, <1>2, <1>3, <1>4 DEF Next

(* The invariant the other theorems rest on holds in every reachable       *)
(* state, whatever the tools and the node did before. *)
THEOREM Inductive == Spec => []IInv
  BY InitIInv, StepKeeps, PTL DEF Spec

(* Every file, note, image and flash holds what the code puts there. *)
THEOREM TypeCorrect == Spec => []TypeOK
<1>1. IInv => TypeOK
  BY DEF IInv
<1> QED
  BY <1>1, Inductive, PTL

(* For any number of nodes, registrations and overlapping tools: a node    *)
(* with a reference that was flashed, as provision_server_ref.py says to,  *)
(* does not hold the key the registry has for it. *)
THEOREM FlashedUnserved == Spec => []FlashedNeverServed
<1>1. IInv => FlashedNeverServed
  <2> SUFFICES ASSUME IInv, NEW n \in Nodes, ref[n] # None, ref[n].by = "image", Served(n)
               PROVE  FALSE
    BY DEF FlashedNeverServed
  <2>1. NodeOK
    BY Parts DEF IInv
  <2>2. ref[n] \in Reference /\ key[n] \in Nat /\ shown[n] \subseteq Keys
    BY <2>1, ProvisioningAssumption DEF NodeOK
  <2>3. IdA(n) \in Ids
    BY <2>2, ProvisioningAssumption DEF IdA, Reference
  <2> DEFINE e == [node |-> n, key |-> key[n], vb |-> ref[n].vb]
  <2>4. e \in [node : Nodes, key : Nat, vb : Nat]
    BY <2>2, ProvisioningAssumption DEF Reference, Vbs
  <2>5. e \notin {None, Other} /\ e.key = key[n] /\ e.node = n
    BY <2>4, ProvisioningAssumption
  <2>6. registry # Torn /\ registry[IdA(n)] = e
    BY DEF Served, ServerStarts
  <2> HIDE DEF e
  <2>7. Shown(e)
    BY <2>3, <2>6 DEF IInv, KeysShown
  <2> QED
    BY <2>5, <2>7 DEF Shown, IInv, KeysFresh
<1> QED
  BY <1>1, Inductive, PTL

(* With one id_b in the world, nothing holds another, wherever a tool was  *)
(* killed. *)
THEOREM IdentityOne == Spec => []OneIdentity
<1>1. IInv => OneIdentity
  <2>1. MadeOK \/ ~IInv
    BY Parts DEF IInv
  <2>2. ASSUME IInv, idbs <= 1, NEW x \in 1 .. idbs PROVE x = 1
    BY <2>1, <2>2 DEF MadeOK
  <2> QED
    BY <2>2 DEF OneIdentity, IInv, IdsMade
<1> QED
  BY <1>1, Inductive, PTL

(* A save that nothing overlapped changes the entry it is about and no     *)
(* other: of any number of invocations, killed ones included. *)
THEOREM OnlyOverlapLoses == Spec => LostOnlyByOverlap
<1>1. IInv /\ [Next]_vars =>
        [\A r \in Runs : Write(r) /\ ~run[r].overlapped =>
           \A i \in Ids \ {run[r].id} : registry'[i] = saved[i]]_vars
  <2> SUFFICES ASSUME IInv, NEW r \in Runs, Write(r), ~run[r].overlapped,
                      NEW i \in Ids \ {run[r].id}
               PROVE  registry'[i] = saved[i]
    OBVIOUS
  <2>1. run[r].copy = saved /\ registry = Torn
    BY DEF IInv, CopiesCurrent, Write
  <2>2. registry' = Changed(r) /\ run[r].copy \in Registry
    BY <2>1, RunTyped DEF Write
  <2> QED
    BY <2>1, <2>2 DEF Changed, Registry
<1> QED
  BY <1>1, Inductive, PTL DEF Spec, LostOnlyByOverlap
=============================================================================
