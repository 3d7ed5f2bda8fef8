------------------------------ MODULE SecretStore ------------------------------
(***************************************************************************)
(* pdsno/security/secret_manager.py SecretManager, with the two clients    *)
(* that keep credentials in it (pdsno/security/auth.py DeviceAuthenticator *)
(* and APIClientAuthenticator).                                            *)
(*                                                                         *)
(* A secret is one <id>.enc file; what is known about all of them is one   *)
(* metadata.json, rewritten in place by every operation.  Each write of a  *)
(* file is two steps, since open() empties the file before the new content *)
(* is written, and the process may crash, or the write fail, between them. *)
(* Encryption is abstracted to: a file decrypts only with the master key   *)
(* it was written with, and only when it is whole.                         *)
(***************************************************************************)
EXTENDS Naturals

CONSTANTS
    DeviceIds,      \* secrets device_<id>_password
    ApiKeyIds,      \* secrets api_key_<uuid>
    None,
    Torn,           \* a file that was emptied and not written
    Expiries,       \* values of expires_at that callers give, None among them
    ApiKeyLimit,    \* rate_limit_per_hour
    MaxTime, MaxVersion, MaxKeys, MaxFaults     \* bounds of the model

Ids == DeviceIds \cup ApiKeyIds

\* A whole <id>.enc file, and what the metadata say of a secret
File == [value : Nat, key : Nat]
Entry == [expires_at : Nat \cup {None}]

\* A call in progress.  What a call does not use is None: value and expires_at are
\* those to be stored, or the value found; deadline is what its owner asked for, and
\* at the time of a retrieval.
Operation ==
    [kind : {"store", "delete", "retrieve"},
     step : {"open_enc", "write_enc", "open_meta", "dump_meta"},
     id : Ids,
     value : Nat \cup {None}, expires_at : Nat \cup {None},
     deadline : Nat \cup {None}, at : Nat \cup {None}]

ASSUME StoreAssumption ==
    /\ None \notin Nat \cup File \cup Entry \cup Operation
    /\ Torn \notin File \cup {None}
    /\ Torn \notin [Ids -> Entry \cup {None}]
    /\ Expiries \subseteq Nat \cup {None}

VARIABLES
    enc,            \* disk: id -> [value, key], Torn, or None
    metaFile,       \* disk: id -> metadata or None; or Torn
    metadata,       \* memory: id -> [expires_at], or None
    master_key,     \* which master key this process was given
    device_credentials,     \* memory: registered devices
    api_keys,       \* memory: API key id -> [hash, request_count], or None
    op,             \* the call in progress and its next step, or None
    answer,         \* what the last retrieve_secret returned: [id, value]
    now,
    version,        \* history: the last secret value made up
    faults,         \* history: crashes and failed writes so far
    latest,         \* history: id -> the value last written or acknowledged
    deadline,       \* history: id -> the expires_at its owner last stored it with
    damaged,        \* history: ids whose own file write was interrupted
    index           \* history: "ok"; "behind": the last rewrite of metadata.json
                    \* was interrupted; "lost": and then the process ended

disk == <<enc, metaFile>>
memory == <<metadata, master_key, device_credentials, api_keys>>
history == <<version, latest, deadline>>
faultVars == <<faults, damaged, index>>
storeVars == <<disk, memory, op, answer, now, history, faultVars>>

StoreInit ==
    /\ enc = [i \in Ids |-> None]
    /\ metaFile = [i \in Ids |-> None]
    /\ metadata = [i \in Ids |-> None]
    /\ master_key = 1
    /\ device_credentials = {}
    /\ api_keys = [i \in ApiKeyIds |-> None]
    /\ op = None
    /\ answer = None
    /\ now = 0
    /\ version = 0
    /\ faults = 0
    /\ latest = [i \in Ids |-> None]
    /\ deadline = [i \in Ids |-> None]
    /\ damaged = {}
    /\ index = "ok"

--------------------------------------------------------------------------------
\* A call starts at one of its steps.
Call(kind, step, id, value, expires_at, due, at) ==
    op' = [kind |-> kind, step |-> step, id |-> id, value |-> value,
           expires_at |-> expires_at, deadline |-> due, at |-> at]

\* store_secret, one step per change of a file

\* The call is made: everything up to open(secret_path, 'wb').
CallStore(id, expires_at, deadlineOf) ==
    /\ op = None
    /\ version < MaxVersion
    /\ version' = version + 1
    /\ Call("store", "open_enc", id, version + 1, expires_at, deadlineOf, None)

\* store_secret called by an operator.
StoreSecret(id, expires_at) ==
    /\ CallStore(id, expires_at, expires_at)
    /\ UNCHANGED <<disk, memory, answer, now, latest, deadline, faultVars>>

\* A bug to be caught: rotation starts with fresh metadata.
RotateSecretForgetful(id) ==
    /\ metadata[id] # None
    /\ CallStore(id, None, deadline[id])
    /\ UNCHANGED <<disk, memory, answer, now, latest, deadline, faultVars>>

\* rotate_secret is store_secret with the old metadata.
RotateSecret(id) ==
    /\ metadata[id] # None
    /\ CallStore(id, metadata[id].expires_at, deadline[id])
    /\ UNCHANGED <<disk, memory, answer, now, latest, deadline, faultVars>>

\* register_device enters the device in memory before it stores the password.
RegisterDevice(id) ==
    /\ CallStore(id, None, None)
    /\ device_credentials' = device_credentials \cup {id}
    /\ UNCHANGED <<disk, metadata, master_key, api_keys, answer, now, latest, deadline,
                   faultVars>>

\* generate_api_key draws a new id and enters it in memory first, too.
GenerateApiKey(id) ==
    /\ api_keys[id] = None
    /\ metadata[id] = None /\ enc[id] = None
    /\ CallStore(id, None, None)
    /\ api_keys' = [api_keys EXCEPT ![id] = [hash |-> version + 1, request_count |-> 0]]
    /\ UNCHANGED <<disk, metadata, master_key, device_credentials, answer, now, latest,
                   deadline, faultVars>>

\* open(secret_path, 'wb') empties the file.
OpenEnc ==
    /\ op # None /\ op.step = "open_enc"
    /\ enc' = [enc EXCEPT ![op.id] = Torn]
    /\ op' = [op EXCEPT !.step = "write_enc"]
    /\ UNCHANGED <<metaFile, memory, answer, now, history, faultVars>>

\* The file is written, then the metadata in memory replaced.
WriteEnc ==
    /\ op # None /\ op.step = "write_enc"
    /\ enc' = [enc EXCEPT ![op.id] = [value |-> op.value, key |-> master_key]]
    /\ metadata' = [metadata EXCEPT ![op.id] = [expires_at |-> op.expires_at]]
    /\ latest' = [latest EXCEPT ![op.id] = op.value]
    /\ deadline' = [deadline EXCEPT ![op.id] = op.deadline]
    /\ op' = [op EXCEPT !.step = "open_meta"]
    /\ damaged' = damaged \ {op.id}
    /\ UNCHANGED <<metaFile, master_key, device_credentials, api_keys, answer, now,
                   version, faults, index>>

\* _save_metadata: open(metadata_path, 'w') ...
OpenMeta ==
    /\ op # None /\ op.step = "open_meta"
    /\ metaFile' = Torn
    /\ op' = [op EXCEPT !.step = "dump_meta"]
    /\ UNCHANGED <<enc, memory, answer, now, history, faultVars>>

\* A bug to be caught: only the entry at hand is written back.
DumpMetaOne ==
    /\ op # None /\ op.step = "dump_meta"
    /\ metaFile' = [i \in Ids |-> IF i = op.id THEN metadata[i] ELSE None]
    /\ answer' = IF op.kind = "retrieve"
                 THEN [id |-> op.id, value |-> op.value, at |-> op.at]
                 ELSE answer
    /\ op' = None
    /\ UNCHANGED <<enc, memory, now, history, faultVars>>

\* ... and json.dump of all that is in memory, after which the call returns.
\* For a retrieval that is the moment the value is handed out.
DumpMeta ==
    /\ op # None /\ op.step = "dump_meta"
    /\ metaFile' = metadata
    /\ index' = IF index = "behind" THEN "ok" ELSE index
    /\ answer' = IF op.kind = "retrieve"
                 THEN [id |-> op.id, value |-> op.value, at |-> op.at]
                 ELSE answer
    /\ op' = None
    /\ UNCHANGED <<enc, memory, now, history, faults, damaged>>

--------------------------------------------------------------------------------
\* delete_secret and retrieve_secret

\* A bug to be caught: the file is left behind.
DeleteSecretKeepFile(id) ==
    /\ op = None
    /\ metadata[id] # None
    /\ metadata' = [metadata EXCEPT ![id] = None]
    /\ latest' = [latest EXCEPT ![id] = None]
    /\ Call("delete", "open_meta", id, None, None, None, None)
    /\ damaged' = damaged \ {id}
    /\ UNCHANGED <<disk, master_key, device_credentials, api_keys, answer, now,
                   version, deadline, faults, index>>

\* delete_secret removes file and metadata, then saves.
DeleteSecret(id) ==
    /\ op = None
    /\ metadata[id] # None
    /\ enc' = [enc EXCEPT ![id] = None]
    /\ metadata' = [metadata EXCEPT ![id] = None]
    /\ latest' = [latest EXCEPT ![id] = None]
    /\ Call("delete", "open_meta", id, None, None, None, None)
    /\ damaged' = damaged \ {id}
    /\ UNCHANGED <<metaFile, master_key, device_credentials, api_keys, answer, now,
                   version, deadline, faults, index>>

Expired(m) == m.expires_at # None /\ now > m.expires_at

Decrypts(f) == IF f \in {None, Torn} THEN FALSE ELSE f.key = master_key

\* What retrieve_secret finds: known, not expired, its file there and whole.
Retrievable(id) ==
    IF metadata[id] = None THEN FALSE
    ELSE ~Expired(metadata[id]) /\ Decrypts(enc[id])

\* A retrieval that succeeds also saves the access times before it returns.
RetrieveSecret(id) ==
    /\ op = None
    /\ \/ /\ ~Retrievable(id)
          /\ answer' = [id |-> id, value |-> None, at |-> now]
          /\ UNCHANGED op
       \/ /\ Retrievable(id)
          /\ Call("retrieve", "open_meta", id, enc[id].value, None, None, now)
          /\ UNCHANGED answer
    /\ UNCHANGED <<disk, memory, now, history, faultVars>>

\* get_device_credentials asks the store only about devices registered in
\* this process.
GetDeviceCredentials(id) ==
    /\ id \in device_credentials
    /\ RetrieveSecret(id)

\* verify_api_key looks at memory only; its count is never set back.
VerifyApiKey(id) ==
    /\ op = None
    /\ api_keys[id] # None
    /\ api_keys[id].request_count < ApiKeyLimit
    /\ api_keys' = [api_keys EXCEPT ![id].request_count = @ + 1]
    /\ UNCHANGED <<disk, metadata, master_key, device_credentials, op, answer, now,
                   history, faultVars>>

--------------------------------------------------------------------------------
\* Faults

InStep(steps) == op # None /\ op.step \in steps

\* An interruption is counted, with what it may leave half done.
Interrupted ==
    /\ faults < MaxFaults
    /\ faults' = faults + 1
    /\ damaged' = IF InStep({"write_enc"}) THEN damaged \cup {op.id} ELSE damaged

\* open() or write() raises (a full disk): the call ends with the exception,
\* or, inside retrieve_secret's try, with None.
WriteFails ==
    /\ op # None
    /\ Interrupted
    /\ index' = IF InStep({"open_meta", "dump_meta"}) /\ index = "ok" THEN "behind" ELSE index
    /\ answer' = IF op.kind = "retrieve"
                 THEN [id |-> op.id, value |-> None, at |-> op.at]
                 ELSE answer
    /\ op' = None
    /\ UNCHANGED <<disk, memory, now, history>>

\* _load_metadata: no file, or one that does not parse, is an empty index.
LoadMetadata == IF metaFile = Torn THEN [i \in Ids |-> None] ELSE metaFile

\* The process ends, between calls or inside one, and a new one starts, with
\* the same master key or (the default when none is given) a new one.
Restart(key) ==
    /\ \/ op = None /\ UNCHANGED <<faults, damaged>>
       \/ op # None /\ Interrupted
    /\ index' = IF index # "ok" \/ InStep({"open_meta", "dump_meta"}) THEN "lost" ELSE "ok"
    /\ metadata' = LoadMetadata
    /\ master_key' = key
    /\ device_credentials' = {}
    /\ api_keys' = [i \in ApiKeyIds |-> None]
    /\ op' = None
    /\ UNCHANGED <<disk, answer, now, history>>

StoreTick ==
    /\ now < MaxTime
    /\ now' = now + 1
    /\ UNCHANGED <<disk, memory, op, answer, history, faultVars>>

StoreNext ==
    \/ \E id \in Ids :
        \/ \E e \in Expiries : StoreSecret(id, e)
        \/ RotateSecret(id)
        \/ DeleteSecret(id)
        \/ RetrieveSecret(id)
    \/ \E id \in DeviceIds : RegisterDevice(id) \/ GetDeviceCredentials(id)
    \/ \E id \in ApiKeyIds : GenerateApiKey(id) \/ VerifyApiKey(id)
    \/ OpenEnc \/ WriteEnc \/ OpenMeta \/ DumpMeta
    \/ WriteFails
    \/ Restart(master_key)
    \/ master_key < MaxKeys /\ Restart(master_key + 1)
    \/ StoreTick

StoreSpec == StoreInit /\ [][StoreNext]_storeVars

--------------------------------------------------------------------------------
\* Properties

\* A value was handed out by this step.
HandsOut == answer' # answer /\ answer'.value # None

\* secret_manager.py retrieve_secret: through crashes, failed writes, stale or
\* lost indexes and changed master keys, what is handed out is the value last
\* written for that secret: never an older one, and none after a deletion.
LatestOrNothing ==
    [][HandsOut => answer'.value = latest[answer'.id]]_storeVars

\* secret_manager.py rotate_secret keeps expires_at: once the owner gave a
\* secret a deadline, no rotation, restart or failed write makes the store hand
\* it out past it, unless a rewrite of the index was cut off by the process's
\* end (then the new value is found under the old entry).
ExpiryOutlivesRotation ==
    [][HandsOut /\ index # "lost" =>
        (deadline[answer'.id] # None => answer'.at <= deadline[answer'.id])]_storeVars

\* secret_manager.py store_secret, _save_metadata and _load_metadata: a secret
\* written with the present master key, not expired, whose own file write was
\* not cut off, can be retrieved at any time between calls, whatever happened
\* to other secrets, as long as no rewrite of the index was cut off by the end
\* of the process.
StoredIsKept ==
    op = None /\ index # "lost" =>
        \A id \in Ids \ damaged :
            latest[id] # None =>
                \/ Retrievable(id)
                \/ enc[id].key # master_key
                \/ deadline[id] # None /\ now > deadline[id]

================================================================================
