------------------------- MODULE ConfigStoreProofs -------------------------
(***************************************************************************)
(* For any passwords and any number of saves: until one of the cases the   *)
(* model names as slips, the account's password is in secure storage or in *)
(* the older file.  Which copies are up to date depends on how far the     *)
(* application has come: storage or the file (StoredOrFiled), what the     *)
(* file and memory may still hold (FileIsCurrent, MemoryIsCurrent), and    *)
(* what the command under way is about to store (OpIsCurrent).             *)
(***************************************************************************)
EXTENDS ConfigStore, TLAPS

\* The values that stand for no password are no passwords, and differ.
ValuesDiffer == {Blank, NoAccount, Absent} \cap Passwords = {} /\ Blank \notin {NoAccount, Absent}

Typed ==
    /\ memory \in Values /\ store \in Values \cup {Absent} /\ entry \in Values \cup {Absent}
    /\ file \in Values \cup {Absent}
    /\ main \in Ops /\ task \in Ops /\ due \subseteq Passwords \cup {NoAccount}

OneCommand == main = Idle \/ task = Idle

\* The password of an account that is known to exist is always one of those it may be.
Certain == NoAccount \notin due

\* A command that publishes has stored what it publishes.
Published(op) ==
    /\ op.new => op.pass \in Passwords /\ op.kind # "trust"
    /\ op.at = "publish" => Kept = op.pass /\ op.kind # "record"

StoredOrFiled == Kept \in due \/ (file \in due /\ Kept \in {Absent, NoAccount, Blank})
FileIsCurrent == file \in due \/ file = Blank
Publishing == main.at = "publish" \/ task.at = "publish"
MemoryIsCurrent == Up => memory \in due \/ (memory = Blank /\ Kept \in due /\ (storage = "error" \/ Publishing))

OpIsCurrent(op) ==
    op # Idle /\ ~op.new =>
        \/ op.pass \in due
        \/ op.pass = Blank /\ op.kind = "save" /\ op.at = "store" /\ storage = "error" /\ Kept \in due

ConfigInv ==
    /\ Typed /\ OneCommand /\ Published(main) /\ Published(task)
    /\ Certain => StoredOrFiled /\ FileIsCurrent /\ MemoryIsCurrent /\ OpIsCurrent(main) /\ OpIsCurrent(task)
    /\ ~Up => main = Idle /\ task = Idle

HeldOrSlipped == slipped \/ ConfigInv

LEMMA IdleIsOp ==
  /\ Idle \in Ops /\ ~Idle.new /\ Idle.at = "read" /\ Idle.kind = "idle"
  /\ Published(Idle) /\ OpIsCurrent(Idle)
  BY DEF Idle, Ops, Values, Published, OpIsCurrent

\* At first the password is in the file or in the older entry, or the account does not exist.
LEMMA InitInv == ASSUME ValuesDiffer PROVE ConfigInit => ConfigInv
  <1> SUFFICES ASSUME ConfigInit PROVE ConfigInv
    OBVIOUS
  <1>1. Typed /\ OneCommand /\ ~Up /\ main = Idle /\ task = Idle
    <2>1. \E pass \in {entry, file, NoAccount} :
            \/ pass = entry /\ entry \in Passwords
            \/ pass = file /\ file \in Passwords /\ entry \notin Passwords
            \/ pass = NoAccount /\ {entry, file} \cap Passwords = {}
      OBVIOUS
    <2>2. due \subseteq Passwords \cup {NoAccount}
      BY <2>1 DEF ConfigInit
    <2> QED  BY <2>2, IdleIsOp DEF ConfigInit, Typed, OneCommand, Up, Values
  <1>2. ASSUME Certain PROVE StoredOrFiled /\ FileIsCurrent
    <2>1. \E pass \in {entry, file, NoAccount} :
            \/ pass = entry /\ entry \in Passwords
            \/ pass = file /\ file \in Passwords /\ entry \notin Passwords
            \/ pass = NoAccount /\ {entry, file} \cap Passwords = {}
      OBVIOUS
    <2>2. \/ entry \in Passwords /\ entry \in due
          \/ file \in Passwords /\ entry \notin Passwords /\ file \in due
      BY <2>1, <1>2 DEF ConfigInit, Certain
    <2> QED  BY <2>2 DEF ConfigInit, StoredOrFiled, FileIsCurrent, Kept, ValuesDiffer
  <1> QED  BY <1>1, <1>2, IdleIsOp DEF ConfigInv, MemoryIsCurrent

\* A write that stores pass, or fails, leaves storage as it was or with pass as the record.
LEMMA WriteKeeps ==
  ASSUME ValuesDiffer, Typed, NEW pass \in Values, NEW w \in Written(pass), store' = w[1], entry' = w[2]
  PROVE  /\ store' \in Values \cup {Absent} /\ entry' \in Values \cup {Absent} /\ w[3] \in BOOLEAN
         /\ Kept' = pass \/ (Kept' = Kept /\ ~w[3])
  <1>1. pass # Absent
    BY DEF Values, ValuesDiffer, NoAccount, Absent
  <1>2. CASE w = <<store, entry, FALSE>>
    BY <1>2 DEF Typed, Kept
  <1>3. CASE w = <<pass, entry, FALSE>>
    BY <1>1, <1>3 DEF Typed, Kept
  <1>4. CASE w = <<pass, entry, TRUE>>
    BY <1>1, <1>4 DEF Typed, Kept
  <1>5. CASE w = <<pass, Absent, TRUE>>
    BY <1>1, <1>5 DEF Typed, Kept
  <1> QED  BY <1>2, <1>3, <1>4, <1>5 DEF Written

\* A start takes what storage and the file have: between them they have the password.
LEMMA LoadKeeps == ASSUME ValuesDiffer, ConfigInv, Load PROVE ConfigInv'
  <1>1. /\ ~Up /\ main = Idle /\ task = Idle /\ UNCHANGED <<main, task, due>>
    BY DEF Load, Up, ConfigInv
  <1>2. CASE LoadsBlind
    <2>1. UNCHANGED <<store, entry, file>> /\ memory' = InMemory(file) /\ storage' = "error"
      BY <1>2 DEF LoadsBlind
    <2>2. Typed'
      BY <1>1, <2>1 DEF ConfigInv, Typed, InMemory, Values
    <2>3. Certain => (StoredOrFiled /\ FileIsCurrent /\ MemoryIsCurrent)'
      BY <1>1, <2>1 DEF ConfigInv, Certain, StoredOrFiled, FileIsCurrent, MemoryIsCurrent, InMemory, Kept, Typed,
           ValuesDiffer
    <2> QED  BY <1>1, <2>1, <2>2, <2>3, IdleIsOp DEF ConfigInv, OneCommand, Published, OpIsCurrent, Certain, Up
  <1>3. CASE Kept # Absent /\ LoadsRecord
    <2> DEFINE pass == Merged(Kept, file)
    <2>1. PICK w \in IF pass # Kept THEN Written(pass) ELSE {<<store, entry, TRUE>>} :
             /\ store' = w[1] /\ entry' = w[2] /\ memory' = pass
             /\ file' \in IF Erases(pass # Kept, w[3]) THEN {file, Public(pass)} ELSE {file}
             /\ storage' = IF w[3] THEN "available" ELSE "error"
      BY <1>3 DEF LoadsRecord
    <2>2. pass \in Values /\ Public(pass) \in Values
      BY <1>3 DEF ConfigInv, Typed, Merged, Filled, Values, Kept, Public
    <2>3. /\ store' \in Values \cup {Absent} /\ entry' \in Values \cup {Absent}
          /\ Kept' = pass \/ Kept' = Kept
      <3>1. CASE pass # Kept
        BY <3>1, <2>1, <2>2, WriteKeeps DEF ConfigInv
      <3>2. CASE pass = Kept
        BY <3>2, <2>1 DEF ConfigInv, Typed, Kept
      <3> QED  BY <3>1, <3>2
    <2>4. file' = file \/ (file' = Public(pass) /\ pass = Kept)
      BY <2>1 DEF Erases
    <2>5. Typed'
      BY <1>1, <2>1, <2>2, <2>3, <2>4 DEF ConfigInv, Typed
    <2>6. storage' # "down"
      BY <2>1
    <2>7. ASSUME Certain PROVE (StoredOrFiled /\ FileIsCurrent /\ MemoryIsCurrent)'
      <3>1. pass \in due
        BY <1>3, <2>7 DEF ConfigInv, Certain, StoredOrFiled, FileIsCurrent, Merged, Filled, Typed, ValuesDiffer
      <3>2. pass \in Passwords
        BY <3>1, <2>7 DEF Certain, ConfigInv, Typed
      <3>3. file' = file \/ (file' = Blank /\ Kept' \in due)
        BY <2>3, <2>4, <3>1, <3>2 DEF Public
      <3> QED  BY <1>1, <2>1, <2>3, <2>7, <3>1, <3>3
                 DEF ConfigInv, StoredOrFiled, FileIsCurrent, MemoryIsCurrent
    <2> QED  BY <1>1, <2>5, <2>6, <2>7, IdleIsOp DEF ConfigInv, OneCommand, Published, OpIsCurrent, Certain, Up
  <1>4. CASE Kept = Absent /\ LoadsFile
    <2>1. /\ store' \in Values \cup {Absent} /\ entry' \in Values \cup {Absent}
          /\ Kept' = file \/ Kept' = Kept
          /\ memory' = InMemory(file) /\ file' = file /\ storage' # "down"
      <3>1. CASE file \in Passwords
        BY <3>1, <1>4, WriteKeeps DEF LoadsFile, ConfigInv, Values
      <3>2. CASE file \notin Passwords
        BY <3>2, <1>4 DEF LoadsFile, ConfigInv, Typed, Kept
      <3> QED  BY <3>1, <3>2
    <2>2. Typed'
      BY <1>1, <2>1 DEF ConfigInv, Typed, InMemory, Values
    <2>3. ASSUME Certain PROVE (StoredOrFiled /\ FileIsCurrent /\ MemoryIsCurrent)'
      <3>1. file \in due /\ file \in Passwords
        BY <1>4, <2>3 DEF ConfigInv, Certain, StoredOrFiled, Typed, ValuesDiffer
      <3>2. memory' = file /\ Kept \in {Absent, NoAccount, Blank}
        BY <2>1, <3>1, <1>4 DEF InMemory, ValuesDiffer
      <3> QED  BY <1>1, <2>1, <3>1, <3>2 DEF StoredOrFiled, FileIsCurrent, MemoryIsCurrent
    <2> QED  BY <1>1, <2>1, <2>2, <2>3, IdleIsOp DEF ConfigInv, OneCommand, Published, OpIsCurrent, Certain, Up
  <1> QED  BY <1>2, <1>3, <1>4 DEF Load

\* A command that begins while none is under way.
LEMMA Begun ==
  ASSUME Typed, UNCHANGED <<memory, store, entry, file, due>>, NEW op \in Ops,
         op.at = "store", op.new => op.pass \in Passwords /\ op.kind # "trust",
         (main' = op /\ task' = Idle) \/ (task' = op /\ main' = Idle)
  PROVE  /\ Typed' /\ OneCommand' /\ Published(main)' /\ Published(task)' /\ ~Publishing'
         /\ OpIsCurrent(op)' => OpIsCurrent(main)' /\ OpIsCurrent(task)'
  <1>1. Typed' /\ OneCommand' /\ ~Publishing'
    BY IdleIsOp DEF Typed, OneCommand, Publishing
  <1>2. Published(op)' /\ Published(Idle)' /\ OpIsCurrent(Idle)'
    BY IdleIsOp DEF Published, OpIsCurrent
  <1>3. Published(main)' /\ Published(task)'
    BY <1>2 DEF Published
  <1>4. OpIsCurrent(op)' => OpIsCurrent(main)' /\ OpIsCurrent(task)'
    BY <1>2 DEF OpIsCurrent
  <1> QED  BY <1>1, <1>3, <1>4

\* A command that does not slip begins alone, with a record that was read or is to be read before it is stored.
LEMMA BeginKeeps ==
  ASSUME ValuesDiffer, ConfigInv, ~slipped',
         (\E pass \in Passwords : Enter(pass) \/ Change(pass)) \/ Keep \/ Trust \/ Record
  PROVE  ConfigInv'
  <1>1. /\ Up /\ main = Idle /\ task = Idle /\ ~Publishing
        /\ UNCHANGED <<memory, store, entry, file, storage, due>>
    BY IdleIsOp DEF Enter, Change, Keep, Trust, Record, Begins, Copies, Alone, Publishing
  <1>2. Up' /\ Kept' = Kept /\ (Certain' <=> Certain)
    BY <1>1 DEF Up, Kept, Certain
  <1>3. \E op \in Ops : /\ op.at = "store" /\ (op.new => op.pass \in Passwords /\ op.kind # "trust")
                        /\ (main' = op /\ task' = Idle) \/ (task' = op /\ main' = Idle)
                        /\ Certain => OpIsCurrent(op)
    <2>1. ASSUME NEW pass \in Passwords, NEW kind \in {"save", "change"},
                 LET op == [kind |-> kind, pass |-> pass, new |-> TRUE, at |-> "store"]
                 IN  (main' = op /\ task' = Idle) \/ (task' = op /\ main' = Idle)
          PROVE  \E op \in Ops : /\ op.at = "store" /\ (op.new => op.pass \in Passwords /\ op.kind # "trust")
                                 /\ (main' = op /\ task' = Idle) \/ (task' = op /\ main' = Idle)
                                 /\ Certain => OpIsCurrent(op)
      <3> DEFINE op == [kind |-> kind, pass |-> pass, new |-> TRUE, at |-> "store"]
      <3>1. op \in Ops /\ op.at = "store" /\ op.new /\ op.pass = pass /\ op.kind # "trust"
        BY DEF Ops, Values
      <3> HIDE DEF op
      <3>2. OpIsCurrent(op)
        BY <3>1 DEF OpIsCurrent
      <3>3. (main' = op /\ task' = Idle) \/ (task' = op /\ main' = Idle)
        BY <2>1 DEF op
      <3> QED  BY <3>1, <3>2, <3>3
    <2>2. ASSUME NEW kind \in {"save", "trust", "record"}, kind # "save" => memory # Blank \/ storage = "available",
                 LET op == [kind |-> kind, pass |-> memory, new |-> FALSE, at |-> "store"]
                 IN  (main' = op /\ task' = Idle) \/ (task' = op /\ main' = Idle)
          PROVE  \E op \in Ops : /\ op.at = "store" /\ (op.new => op.pass \in Passwords /\ op.kind # "trust")
                                 /\ (main' = op /\ task' = Idle) \/ (task' = op /\ main' = Idle)
                                 /\ Certain => OpIsCurrent(op)
      <3> DEFINE op == [kind |-> kind, pass |-> memory, new |-> FALSE, at |-> "store"]
      <3>1. op \in Ops /\ op.at = "store" /\ ~op.new /\ op.pass = memory /\ op.kind = kind
        BY DEF Ops, ConfigInv, Typed
      <3> HIDE DEF op
      <3>2. Certain => memory \in due \/ (memory = Blank /\ Kept \in due /\ storage = "error")
        BY <1>1 DEF ConfigInv, MemoryIsCurrent
      <3>3. Certain => OpIsCurrent(op)
        BY <2>2, <3>1, <3>2 DEF OpIsCurrent
      <3>4. (main' = op /\ task' = Idle) \/ (task' = op /\ main' = Idle)
        BY <2>2 DEF op
      <3> QED  BY <3>1, <3>3, <3>4
    <2>3. CASE \E pass \in Passwords : Enter(pass)
      BY <2>3, <2>1, <1>1 DEF Enter
    <2>4. CASE \E pass \in Passwords : Change(pass)
      BY <2>4, <2>1, <1>1 DEF Change
    <2>5. CASE Keep
      <3>1. Filled(Public(memory), memory) = memory
        BY DEF ConfigInv, Typed, Values, Filled, Public, ValuesDiffer
      <3> QED  BY <2>5, <2>2, <1>1, <3>1 DEF Keep
    <2>6. CASE Trust
      BY <2>6, <2>2, <1>1 DEF Trust, Copies
    <2>7. CASE Record
      BY <2>7, <2>2, <1>1 DEF Record, Copies
    <2> QED  BY <2>3, <2>4, <2>5, <2>6, <2>7
  <1>4. PICK op \in Ops : /\ op.at = "store" /\ (op.new => op.pass \in Passwords /\ op.kind # "trust")
                          /\ (main' = op /\ task' = Idle) \/ (task' = op /\ main' = Idle)
                          /\ Certain => OpIsCurrent(op)
    BY <1>3
  <1>5. /\ Typed' /\ OneCommand' /\ Published(main)' /\ Published(task)' /\ ~Publishing'
        /\ OpIsCurrent(op)' => OpIsCurrent(main)' /\ OpIsCurrent(task)'
    BY <1>1, <1>4, Begun DEF ConfigInv
  <1>6. Certain => OpIsCurrent(op)'
    BY <1>1, <1>2, <1>4 DEF OpIsCurrent
  <1>7. Certain => (StoredOrFiled /\ FileIsCurrent /\ MemoryIsCurrent)'
    BY <1>1, <1>2 DEF ConfigInv, StoredOrFiled, FileIsCurrent, MemoryIsCurrent
  <1> QED  BY <1>2, <1>5, <1>6, <1>7 DEF ConfigInv

\* What a command stores is a password the account may have: its own, or for a blank the one in storage.
LEMMA StoresKeeps ==
  ASSUME ValuesDiffer, ConfigInv, NEW next \in Ops,
         \/ Stores(main, next) /\ main' = next /\ UNCHANGED task
         \/ Stores(task, next) /\ task' = next /\ UNCHANGED main
  PROVE  ConfigInv'
  <1>1. PICK op \in {main, task} :
           /\ Stores(op, next)
           /\ \/ op = main /\ main' = next /\ task' = Idle
              \/ op = task /\ task' = next /\ main' = Idle
    BY IdleIsOp DEF ConfigInv, OneCommand, Stores
  <1>2. /\ op \in Ops /\ op.at = "store" /\ op # Idle /\ Published(op) /\ (Certain => OpIsCurrent(op))
        /\ UNCHANGED <<memory, file>> /\ Up /\ ~Publishing
    BY <1>1, IdleIsOp DEF ConfigInv, Typed, Stores, OneCommand, Publishing
  <1>3. CASE Missing(op) /\ ~readable
    <2>1. next = Idle /\ UNCHANGED <<memory, file, store, entry, storage, due>>
      BY <1>1, <1>3 DEF Stores
    <2>2. Kept' = Kept /\ (Certain' <=> Certain) /\ (Up' <=> Up) /\ main' = Idle /\ task' = Idle /\ ~Publishing'
      BY <1>1, <2>1, IdleIsOp DEF Kept, Certain, Up, Publishing
    <2>3. Typed'
      BY <2>1, <2>2, IdleIsOp DEF ConfigInv, Typed
    <2> QED  BY <1>2, <2>1, <2>2, <2>3, IdleIsOp
               DEF ConfigInv, OneCommand, Published, OpIsCurrent, StoredOrFiled, FileIsCurrent, MemoryIsCurrent
  <1>4. CASE ~(Missing(op) /\ ~readable)
    <2> DEFINE pass == ToStore(op)
    <2>1. PICK w \in Written(pass) :
             /\ store' = w[1] /\ entry' = w[2]
             /\ due' = IF op.new THEN due \cup {op.pass} ELSE due
             /\ next = IF w[3] /\ op.kind # "record" THEN [op EXCEPT !.pass = pass, !.at = "publish"] ELSE Idle
             /\ storage' = IF w[3] /\ op.kind \in {"save", "change"} THEN "available" ELSE storage
      BY <1>1, <1>4 DEF Stores
    <2>2. /\ pass \in Values
          /\ op.new => pass = op.pass /\ op.pass \in Passwords /\ op.pass \in due' /\ op.kind # "trust"
          /\ Certain /\ ~op.new => pass \in due
      <3>1. op.new => op.pass \in Passwords /\ op.pass # Blank /\ op.kind # "trust"
        BY <1>2 DEF Published, ValuesDiffer
      <3>2. Missing(op) => op.pass = Blank /\ pass = IF Kept \in Passwords THEN Kept ELSE Blank
        BY DEF Missing, ToStore, Filled
      <3>3. ~Missing(op) => pass = op.pass
        BY DEF ToStore
      <3>4. ASSUME Certain, ~op.new PROVE pass \in due
        <4>1. due \subseteq Passwords
          BY <3>4 DEF Certain, ConfigInv, Typed
        <4>2. CASE op.pass \in due
          BY <4>1, <4>2, <3>2, <3>3 DEF ValuesDiffer
        <4>3. CASE op.pass = Blank /\ op.kind = "save" /\ storage = "error" /\ Kept \in due
          BY <4>1, <4>3, <3>2 DEF Missing
        <4> QED  BY <1>2, <3>4, <4>2, <4>3 DEF OpIsCurrent
      <3>5. op.pass \in Values /\ Blank \in Values /\ Passwords \subseteq Values
        BY <1>2 DEF Ops, Values
      <3> QED  BY <2>1, <3>1, <3>2, <3>3, <3>4, <3>5
    <2> HIDE DEF pass
    <2>3. /\ store' \in Values \cup {Absent} /\ entry' \in Values \cup {Absent} /\ w[3] \in BOOLEAN
          /\ Kept' = pass \/ (Kept' = Kept /\ ~w[3])
      BY <2>1, <2>2, WriteKeeps DEF ConfigInv
    <2>4. /\ next \in Ops /\ (w[3] /\ op.kind # "record" => next.at = "publish")
          /\ next # Idle =>
               Kept' = pass /\ next.pass = pass /\ next.at = "publish" /\ next.kind # "record" /\ next.new = op.new
               /\ next.kind = op.kind
      BY <1>2, <2>1, <2>2, <2>3, IdleIsOp DEF Ops
    <2>5. Typed' /\ OneCommand' /\ Published(main)' /\ Published(task)' /\ Up'
      <3>1. due' \subseteq Passwords \cup {NoAccount}
        BY <2>1, <2>2 DEF ConfigInv, Typed
      <3>2. Up'
        BY <1>2, <2>1 DEF Up
      <3>3. Typed' /\ OneCommand'
        BY <1>1, <1>2, <2>3, <2>4, <3>1, IdleIsOp DEF ConfigInv, Typed, OneCommand
      <3>4. Published(next)'
        BY <2>2, <2>4, IdleIsOp DEF Published
      <3> QED  BY <1>1, <3>2, <3>3, <3>4, IdleIsOp DEF Published
    <2>6. ASSUME Certain' PROVE (StoredOrFiled /\ FileIsCurrent /\ MemoryIsCurrent)' /\ OpIsCurrent(main)' /\ OpIsCurrent(task)'
      <3>1. Certain /\ due \subseteq due' /\ pass \in due'
        BY <2>1, <2>2, <2>6 DEF Certain
      <3>2. Kept' \in due' \/ (Kept' = Kept /\ ~w[3])
        BY <2>3, <3>1
      <3>3. (StoredOrFiled /\ FileIsCurrent)'
        BY <1>2, <3>1, <3>2 DEF ConfigInv, StoredOrFiled, FileIsCurrent
      <3>4. OpIsCurrent(next)'
        BY <2>4, <3>1 DEF OpIsCurrent
      <3>5. MemoryIsCurrent'
        <4>1. w[3] /\ op.kind \in {"save", "change"} => Publishing'
          BY <1>1, <2>1, <2>4 DEF Publishing
        <4>2. memory \in due \/ (memory = Blank /\ Kept \in due /\ storage = "error")
          BY <1>2, <3>1 DEF ConfigInv, MemoryIsCurrent
        <4> QED  BY <1>2, <2>1, <3>1, <3>2, <4>1, <4>2 DEF MemoryIsCurrent
      <3> QED  BY <1>1, <3>3, <3>4, <3>5, IdleIsOp DEF OpIsCurrent
    <2> QED  BY <2>5, <2>6 DEF ConfigInv
  <1> QED  BY <1>3, <1>4

\* What is published has been stored: from then on it is what memory has, and if it is new, the password.
LEMMA PublishesKeeps ==
  ASSUME ValuesDiffer, ConfigInv, ~slipped',
         \/ Publishes(main) /\ main' = Idle /\ UNCHANGED task
         \/ Publishes(task) /\ task' = Idle /\ UNCHANGED main
  PROVE  ConfigInv'
  <1>1. PICK op \in {main, task} : Publishes(op) /\ main' = Idle /\ task' = Idle
    BY IdleIsOp DEF ConfigInv, OneCommand, Publishes
  <1>2. /\ op \in Ops /\ op.at = "publish" /\ op # Idle /\ Kept = op.pass /\ Up
        /\ op.new => op.pass \in Passwords /\ op.kind # "trust"
        /\ Certain => OpIsCurrent(op)
    BY <1>1, IdleIsOp DEF ConfigInv, Typed, Published, Publishes
  <1>3. CASE /\ memory' = op.pass /\ due' = (IF op.new THEN {op.pass} ELSE due)
             /\ file' = (IF op.kind = "trust" THEN file ELSE Public(op.pass))
             /\ UNCHANGED <<store, entry, storage>>
    <2>1. Kept' = op.pass /\ Up' /\ op.pass \in Values /\ Public(op.pass) \in Values
      BY <1>2, <1>3 DEF Kept, Up, Ops, Public, Values
    <2>2. Typed'
      BY <1>1, <1>2, <1>3, <2>1, IdleIsOp DEF ConfigInv, Typed
    <2>3. ASSUME Certain' PROVE (StoredOrFiled /\ FileIsCurrent /\ MemoryIsCurrent)'
      <3>1. op.pass \in due'
        <4>1. CASE op.new
          BY <4>1, <1>3
        <4>2. CASE ~op.new
          BY <4>2, <1>2, <1>3, <2>3 DEF Certain, OpIsCurrent
        <4> QED  BY <4>1, <4>2
      <3>2. op.pass \in Passwords
        BY <3>1, <2>2, <2>3 DEF Typed, Certain
      <3>3. file' = Blank \/ (file' = file /\ due' = due)
        BY <1>2, <1>3, <3>2 DEF Public
      <3>4. FileIsCurrent'
        BY <1>3, <2>3, <3>3 DEF FileIsCurrent, ConfigInv, Certain
      <3> QED  BY <1>3, <2>1, <3>1, <3>4 DEF StoredOrFiled, MemoryIsCurrent
    <2> QED  BY <1>1, <2>1, <2>2, <2>3, IdleIsOp DEF ConfigInv, OneCommand, Published, OpIsCurrent
  <1>4. CASE UNCHANGED <<memory, file, due, store, entry, storage>> /\ memory # Blank
    <2>1. Kept' = Kept /\ (Certain' <=> Certain) /\ Up' /\ Typed'
      BY <1>1, <1>2, <1>4, IdleIsOp DEF ConfigInv, Typed, Kept, Certain, Up
    <2>2. Certain => (StoredOrFiled /\ FileIsCurrent /\ MemoryIsCurrent)'
      BY <1>2, <1>4, <2>1 DEF ConfigInv, StoredOrFiled, FileIsCurrent, MemoryIsCurrent
    <2> QED  BY <1>1, <2>1, <2>2, IdleIsOp DEF ConfigInv, OneCommand, Published, OpIsCurrent
  <1> QED  BY <1>1, <1>3, <1>4 DEF Publishes

\* The router's profile is saved with the record in memory, alone, and only if that was read.
LEMMA RouterKeeps == ASSUME ValuesDiffer, ConfigInv, Router, ~slipped' PROVE ConfigInv'
  <1>1. /\ storage = "available" /\ main = Idle /\ task = Idle /\ Up /\ ~Publishing
        /\ UNCHANGED <<memory, file, storage, main, task, due>>
    BY IdleIsOp DEF Router, Begins, Alone, Up, Publishing
  <1>2. PICK w \in Written(memory) : store' = w[1] /\ entry' = w[2]
    BY DEF Router
  <1>3. memory \in Values
    BY DEF ConfigInv, Typed
  <1>4. store' \in Values \cup {Absent} /\ entry' \in Values \cup {Absent} /\ (Kept' = memory \/ Kept' = Kept)
    BY <1>2, <1>3, WriteKeeps DEF ConfigInv
  <1>5. Typed' /\ Up'
    BY <1>1, <1>4 DEF ConfigInv, Typed, Up
  <1>6. ASSUME Certain' PROVE (StoredOrFiled /\ FileIsCurrent /\ MemoryIsCurrent)'
    <2>1. Certain /\ memory \in due
      BY <1>1, <1>6 DEF Certain, ConfigInv, MemoryIsCurrent
    <2> QED  BY <1>1, <1>4, <2>1 DEF ConfigInv, StoredOrFiled, FileIsCurrent, MemoryIsCurrent
  <1> QED  BY <1>1, <1>5, <1>6, IdleIsOp DEF ConfigInv, OneCommand, Published, OpIsCurrent

\* Secure storage comes and goes, and the application may end at any point.
LEMMA OutsideKeeps == ASSUME ValuesDiffer, ConfigInv, Blinks \/ Ends \/ UNCHANGED configVars PROVE ConfigInv'
  <1>1. UNCHANGED <<store, entry, file, due>> /\ Kept' = Kept /\ (Certain' <=> Certain)
    BY DEF Blinks, Ends, configVars, Kept, Certain
  <1>2. CASE Ends
    <2>1. ~Up' /\ main' = Idle /\ task' = Idle /\ memory' = NoAccount
      BY <1>2 DEF Ends, Up
    <2>2. Typed' /\ OneCommand'
      BY <1>1, <2>1, IdleIsOp DEF ConfigInv, Typed, OneCommand, Values
    <2> QED  BY <1>1, <2>1, <2>2, IdleIsOp
               DEF ConfigInv, Published, OpIsCurrent, StoredOrFiled, FileIsCurrent, MemoryIsCurrent
  <1>3. CASE UNCHANGED <<memory, storage, main, task>>
    BY <1>1, <1>3 DEF ConfigInv, Typed, OneCommand, Published, OpIsCurrent, StoredOrFiled, FileIsCurrent,
         MemoryIsCurrent, Up, Publishing
  <1> QED  BY <1>2, <1>3 DEF Blinks, configVars

\* A slip is not taken back, and a step without one preserves the rest.
LEMMA StepInv == ASSUME ValuesDiffer PROVE HeldOrSlipped /\ [ConfigNext]_configVars => HeldOrSlipped'
  <1> SUFFICES ASSUME HeldOrSlipped, [ConfigNext]_configVars, ~slipped' PROVE ConfigInv'
    BY DEF HeldOrSlipped
  <1>0. ~slipped
    BY DEF ConfigNext, configVars, Load, Enter, Change, Keep, Trust, Record, Router, Begins, Copies, MainStores,
       TaskStores, Stores, MainPublishes, TaskPublishes, Publishes, Blinks, Ends
  <1> USE <1>0 DEF HeldOrSlipped
  <1>1. CASE Load  BY <1>1, LoadKeeps
  <1>2. CASE (\E pass \in Passwords : Enter(pass) \/ Change(pass)) \/ Keep \/ Trust \/ Record  BY <1>2, BeginKeeps
  <1>3. CASE MainStores \/ TaskStores  BY <1>3, StoresKeeps DEF MainStores, TaskStores
  <1>4. CASE MainPublishes \/ TaskPublishes  BY <1>4, PublishesKeeps DEF MainPublishes, TaskPublishes
  <1>5. CASE Router  BY <1>5, RouterKeeps
  <1>6. CASE Blinks \/ Ends \/ UNCHANGED configVars  BY <1>6, OutsideKeeps
  <1> QED  BY <1>1, <1>2, <1>3, <1>4, <1>5, <1>6 DEF ConfigNext

\* Unless commands overlapped, or a file or a record went wrong while memory had the blank of an unreadable
\* start: whatever else fails and whenever the application ends, the account's password is in secure
\* storage or in the file of the older version (load_config, save_config, persist_router).
THEOREM NoPasswordIsLost == ValuesDiffer /\ ConfigSpec => []PasswordIsSomewhere
  <1> SUFFICES ASSUME ValuesDiffer PROVE ConfigSpec => []PasswordIsSomewhere
    OBVIOUS
  <1>1. HeldOrSlipped => PasswordIsSomewhere
    <2> SUFFICES ASSUME ConfigInv, Certain PROVE \E pass \in due : Kept = pass \/ file = pass
      BY DEF PasswordIsSomewhere, Certain, HeldOrSlipped
    <2> QED  BY DEF ConfigInv, StoredOrFiled
  <1>2. ConfigInit => HeldOrSlipped
    BY InitInv DEF HeldOrSlipped
  <1>3. HeldOrSlipped /\ [ConfigNext]_configVars => HeldOrSlipped'
    BY StepInv
  <1> QED  BY <1>1, <1>2, <1>3, PTL DEF ConfigSpec

=============================================================================
