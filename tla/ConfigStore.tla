---------------------------- MODULE ConfigStore ----------------------------
(***************************************************************************)
(* The configuration of the application for one account: the copy in       *)
(* memory, the record in secure storage, the plain file of older versions, *)
(* and the writers that read, store and publish the whole record           *)
(* (load_config, save_config, the trust commands, persist_router).         *)
(* Secure storage may be unreadable for a while, a write may fail or only  *)
(* seem to, and the application may end at any point.                      *)
(***************************************************************************)
EXTENDS Naturals, FiniteSets

CONSTANTS
    Passwords, Blank,   \* passwords the account may have; none
    MaxSaves            \* bound: passwords that are entered or changed

Absent == "absent"          \* no record, no file
NoAccount == "no account"   \* a record that has not the account
Values == Passwords \cup {Blank, NoAccount}

VARIABLES
    memory,             \* the password in state.config
    store,              \* in secure storage
    entry,              \* in the credential entry of older Windows versions
    file,               \* in config.json
    readable,           \* whether secure storage can be read
    storage,            \* credential_storage_status
    main, task,         \* the command of the window, and the change of the password, that are under way
    saves,
    due,                \* what the account's password may be: the last one acknowledged, or one that was sent since
    slipped             \* whether one of the cases happened in which the code may lose it (history)

configVars == <<memory, store, entry, file, readable, storage, main, task, saves, due, slipped>>

Idle == [kind |-> "idle", pass |-> Blank, new |-> FALSE, at |-> "read"]
Ops == [kind : {"idle", "save", "change", "trust", "record"}, pass : Values, new : BOOLEAN, at : {"read", "store", "publish"}]

ConfigTypeOK ==
    /\ memory \in Values /\ store \in Values \cup {Absent} /\ file \in Values \cup {Absent}
    /\ readable \in BOOLEAN /\ storage \in {"unknown", "available", "missing", "error", "down"}
    /\ entry \in Values \cup {Absent}
    /\ main \in Ops /\ main.kind \notin {"change", "record"} /\ task \in Ops /\ task.kind \notin {"save", "trust"}
    /\ saves \in 0 .. MaxSaves /\ due \subseteq Passwords \cup {NoAccount} /\ due # {}
    /\ slipped \in BOOLEAN

\* A first start, or one after an older version, which left a plain file and may have left a record.
ConfigInit ==
    /\ memory = NoAccount /\ store \in {Absent, NoAccount, Blank} /\ file \in Passwords \cup {Absent, Blank}
    /\ entry \in IF store = Absent /\ file # Absent THEN Passwords \cup {Absent, Blank} ELSE {Absent}
    /\ entry \in Passwords => file \in {entry, Blank}
    /\ readable \in BOOLEAN /\ storage = "down" /\ main = Idle /\ task = Idle /\ saves = 0 /\ slipped = FALSE
    /\ due = {CHOOSE pass \in {entry, file, NoAccount} :
                \/ pass = entry /\ entry \in Passwords
                \/ pass = file /\ file \in Passwords /\ entry \notin Passwords
                \/ pass = NoAccount /\ {entry, file} \cap Passwords = {}}

\* fill_missing_passwords completes the accounts a record has, merge_legacy_credentials also adds those it has not.
Filled(pass, from) == IF pass = Blank /\ from \in Passwords THEN from ELSE pass
Merged(pass, from) == IF pass = NoAccount /\ from # Absent THEN from ELSE Filled(pass, from)

\* public_config.
Public(pass) == IF pass \in Passwords THEN Blank ELSE pass

\* load_secure_config: the entry of older versions is read only where there is no record of a newer one.
Kept == IF store # Absent THEN store ELSE entry

\* save_secure_config_verified: what is in storage and the entry afterwards, and whether the caller is told
\* so.  The write may fail; it may also succeed and not be read back.  The entry goes once it was read back.
Written(pass) ==
    {<<store, entry, FALSE>>, <<pass, entry, FALSE>>}
        \cup (IF readable THEN {<<pass, entry, TRUE>>, <<pass, Absent, TRUE>>} ELSE {})

\* load_config clears the passwords of the file only when there was nothing to take from it.
ErasesNow(migrated, persisted) == TRUE
Erases(migrated, persisted) == persisted /\ ~migrated

LoadsRecord ==
    LET pass == Merged(Kept, file)
        migrated == pass # Kept
    IN  \E w \in IF migrated THEN Written(pass) ELSE {<<store, entry, TRUE>>} :
            /\ store' = w[1] /\ entry' = w[2] /\ memory' = pass
            /\ file' \in IF Erases(migrated, w[3]) THEN {file, Public(pass)} ELSE {file}
            /\ storage' = IF w[3] THEN "available" ELSE "error"

InMemory(pass) == IF pass = Absent THEN NoAccount ELSE pass

LoadsFile ==
    /\ memory' = InMemory(file)
    /\ IF file \in Passwords
       THEN \E w \in Written(file) :
                store' = w[1] /\ entry' = w[2] /\ storage' = IF w[3] THEN "available" ELSE "error"
       ELSE storage' = "missing" /\ UNCHANGED <<store, entry>>
    /\ UNCHANGED file

LoadsBlind == memory' = InMemory(file) /\ storage' = "error" /\ UNCHANGED <<store, entry, file>>

Load ==
    /\ storage = "down"
    /\ \/ ~readable /\ LoadsBlind
       \/ readable /\ Kept # Absent /\ LoadsRecord
       \/ readable /\ Kept = Absent /\ LoadsFile
    /\ UNCHANGED <<readable, main, task, saves, due, slipped>>

Up == storage # "down"
Alone == main = Idle /\ task = Idle

\* No lock keeps a command from beginning while another is between its copy and its publication.
Begins == Up /\ slipped' = (slipped \/ ~Alone)

\* Commands that copy the record as memory has it, also when it was never read from storage.
Copies == Up /\ slipped' = (slipped \/ ~Alone \/ (memory = Blank /\ storage # "available"))

\* The window saves a password the user entered, or something else: it then sends none for the account.
Enter(pass) ==
    /\ Begins /\ main = Idle /\ saves < MaxSaves /\ saves' = saves + 1
    /\ main' = [kind |-> "save", pass |-> pass, new |-> TRUE, at |-> "store"]
    /\ UNCHANGED <<memory, store, entry, file, readable, storage, task, due>>

Keep ==
    /\ Begins /\ main = Idle
    /\ main' = [kind |-> "save", pass |-> Filled(Public(memory), memory), new |-> FALSE, at |-> "store"]
    /\ UNCHANGED <<memory, store, entry, file, readable, storage, task, saves, due>>

\* The password was changed at the school: the record is copied with it, and saved from the copy.
Change(pass) ==
    /\ Begins /\ task = Idle /\ memory # NoAccount /\ saves < MaxSaves /\ saves' = saves + 1
    /\ task' = [kind |-> "change", pass |-> pass, new |-> TRUE, at |-> "store"]
    /\ UNCHANGED <<memory, store, entry, file, readable, storage, main, due>>

\* set_current_network_trust and its like copy the record to change its lists.
Trust ==
    /\ Copies /\ main = Idle
    /\ main' = [kind |-> "trust", pass |-> memory, new |-> FALSE, at |-> "store"]
    /\ UNCHANGED <<memory, store, entry, file, readable, storage, task, saves, due>>

\* A save, of a record that misses a password while storage was not read, first reads it from there.
Missing(op) == op.kind \in {"save", "change"} /\ storage \in {"error", "unknown"} /\ op.pass = Blank

ToStore(op) == IF Missing(op) THEN Filled(op.pass, Kept) ELSE op.pass

\* The step of a command that stores its record: it goes on to publish it, or ends.
Stores(op, next) ==
    /\ op.at = "store"
    /\ IF Missing(op) /\ ~readable THEN next = Idle /\ UNCHANGED <<store, entry, storage, due>>
       ELSE \E w \in Written(ToStore(op)) :
                /\ store' = w[1] /\ entry' = w[2]
                /\ due' = IF op.new THEN due \cup {op.pass} ELSE due
                /\ next = IF w[3] /\ op.kind # "record" THEN [op EXCEPT !.pass = ToStore(op), !.at = "publish"]
                          ELSE Idle
                /\ storage' = IF w[3] /\ op.kind \in {"save", "change"} THEN "available" ELSE storage
    /\ UNCHANGED <<memory, file, readable, saves, slipped>>

\* The step that publishes it: a save writes the file without passwords, which may fail, and then memory.
Publishes(op) ==
    /\ op.at = "publish"
    /\ \/ /\ memory' = op.pass
          /\ due' = IF op.new THEN {op.pass} ELSE due
          /\ file' = IF op.kind = "trust" THEN file ELSE Public(op.pass)
          /\ UNCHANGED slipped
       \/ /\ op.kind # "trust" /\ UNCHANGED <<memory, file, due>>
          /\ slipped' = (slipped \/ memory = Blank)
    /\ UNCHANGED <<store, entry, readable, storage, saves>>

MainStores == \E next \in Ops : Stores(main, next) /\ main' = next /\ UNCHANGED task
MainPublishes == Publishes(main) /\ main' = Idle /\ UNCHANGED task
TaskStores == \E next \in Ops : Stores(task, next) /\ task' = next /\ UNCHANGED main
TaskPublishes == Publishes(task) /\ task' = Idle /\ UNCHANGED main

\* persist_campus_service_session and the payment journal change the record in memory, copy it, and store
\* the copy once the lock is gone.
Record ==
    /\ Copies /\ task = Idle
    /\ task' = [kind |-> "record", pass |-> memory, new |-> FALSE, at |-> "store"]
    /\ UNCHANGED <<memory, store, entry, file, readable, storage, main, saves, due>>

\* persist_router writes under the lock of memory, and only when the record was read.
Router ==
    /\ Begins /\ storage = "available"
    /\ \E w \in Written(memory) : store' = w[1] /\ entry' = w[2]
    /\ UNCHANGED <<memory, file, readable, storage, main, task, saves, due>>

Blinks ==
    readable' = ~readable /\ UNCHANGED <<memory, store, entry, file, storage, main, task, saves, due, slipped>>

Ends ==
    /\ Up /\ storage' = "down" /\ memory' = NoAccount /\ main' = Idle /\ task' = Idle
    /\ UNCHANGED <<store, entry, file, readable, saves, due, slipped>>

ConfigNext ==
    \/ Load \/ Keep \/ Trust \/ Record \/ Router \/ MainStores \/ MainPublishes \/ TaskStores \/ TaskPublishes
    \/ Blinks \/ Ends
    \/ \E pass \in Passwords : Enter(pass) \/ Change(pass)

ConfigSpec == ConfigInit /\ [][ConfigNext]_configVars

-----------------------------------------------------------------------------
\* Whatever fails and whenever the application ends, the account's password is in secure storage or in the
\* file of the older version: neither copy goes before the other is there, and no blank takes its place.
\* The code does not keep this once two commands that copy, store and publish the record overlapped, a save
\* failed on the file while memory still had the blank of an unreadable start, or a trust decision, a
\* session or a journal was stored with that blank.
PasswordIsSomewhere == slipped \/ NoAccount \in due \/ \E pass \in due : Kept = pass \/ file = pass

\* A password that was acknowledged is never overwritten by a blank, a trust decision while storage
\* is not read included: "prevented a blank password from overwriting the original data" (save_config).
BlankNeverOverwrites == [][(Kept \in Passwords /\ due = {Kept}) => (Kept' # Blank)]_configVars
=============================================================================
