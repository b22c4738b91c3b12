---------------------------- MODULE JsonDatabase ----------------------------
(***************************************************************************)
(* The device database: core/src/database/jsonDatabase.c.                  *)
(*                                                                         *)
(* Devices live in memory in the map `devices', with a second map          *)
(* resourcesByUri of locators for every item of every device, and on       *)
(* storage in one file per device.  Every public function runs under one   *)
(* mutex, so it is one action here; what makes the module hard is that a   *)
(* file may fail to be written, that some changes are only written later   *)
(* ("lazy save"), and that the process may stop at any time.               *)
(*                                                                         *)
(* A device is a function from its items to their values, Absent where it  *)
(* has no such item.  "endpoint" and "resource" stand for what a device is *)
(* added with, "endpoint2" and "resource2" for what is added to it later;  *)
(* the value of "endpoint" is its profile version.                         *)
(***************************************************************************)
EXTENDS Naturals, FiniteSets

CONSTANTS
    Uuids,     \* devices
    Values,    \* values of items
    Failing,   \* operations in which a write to storage may fail, "Load" if files may be
               \* unreadable, "Uri" if an item may come with a URI that is not its own
    AddKnown   \* TRUE iff a device that is already known may be added

ASSUME ValuesAssumption == Values \subseteq Nat \ {0}
ASSUME AddKnownAssumption == AddKnown \in BOOLEAN

Items == {"device", "endpoint", "resource", "metadata", "endpoint2", "resource2"}
Absent == 0
Devices == [Items -> Values \cup {Absent}]
NoDevice == [i \in Items |-> Absent]
Schemas == {"none", "old", "current"}   \* of the systemProperties file

VARIABLES
    open,          \* the maps exist
    devices,       \* per uuid, the device in memory, or NoDevice
    dirty,         \* entries that are marked dirty
    locators,      \* keys of resourcesByUri: pairs of a uuid and an item
    schema,        \* schema version among the system properties in memory
    stored,        \* per uuid, the device in its file, or NoDevice
    storedSchema,  \* schema version in the systemProperties file, "none" if there is no file
    durable        \* history: per item, the values a restart may bring back

vars == <<open, devices, dirty, locators, schema, stored, storedSchema, durable>>

Present(d) == {i \in Items : d[i] # Absent}
Known(u) == devices[u]["device"] # Absent

\* What a device looks like when it is paired, or restored from a backup.
NewDevices ==
    {[i \in Items |-> IF i \in {"device", "endpoint", "resource"} \cup extra THEN v ELSE Absent] :
        v \in Values, extra \in SUBSET {"metadata"}}

TypeOK ==
    /\ open \in BOOLEAN
    /\ devices \in [Uuids -> Devices]
    /\ dirty \subseteq Uuids
    /\ locators \subseteq Uuids \X Items
    /\ schema = IF open THEN "current" ELSE "none"
    /\ stored \in [Uuids -> Devices]
    /\ storedSchema \in Schemas
    /\ durable \in [Uuids -> [Items -> SUBSET (Values \cup {Absent})]]

\* An empty storage, or one left by an earlier version of the program.
Init ==
    /\ open = FALSE
    /\ devices = [u \in Uuids |-> NoDevice]
    /\ dirty = {}
    /\ locators = {}
    /\ schema = "none"
    /\ \/ storedSchema = "none" /\ stored = [u \in Uuids |-> NoDevice]
       \/ storedSchema = "old" /\ stored \in [Uuids -> NewDevices]
    /\ durable = [u \in Uuids |-> [i \in Items |-> {stored[u][i]}]]

-----------------------------------------------------------------------------
(* Opening and closing *)

AllLocators(ds) == {p \in Uuids \X Items : ds[p[1]][p[2]] # Absent}
Outcomes(op) == IF op \in Failing THEN BOOLEAN ELSE {TRUE}

\* Mutant: a file of an earlier schema is taken as it is.
InitializeFromNoMigration(ds, s, ok) ==
    /\ open' = TRUE
    /\ dirty' = {}
    /\ schema' = IF s = "none" THEN "current" ELSE s
    /\ stored' = ds
    /\ storedSchema' = IF s = "none" /\ ok THEN "current" ELSE s
    /\ devices' = IF s = "none" THEN [u \in Uuids |-> NoDevice] ELSE ds
    /\ locators' = IF s = "none" THEN {} ELSE AllLocators(ds)

\* Mutant: devices are loaded only from storage of the current schema.
InitializeFromCurrentOnly(ds, s, ok) ==
    /\ open' = TRUE
    /\ dirty' = {}
    /\ schema' = "current"
    /\ stored' = ds
    /\ storedSchema' = IF ok THEN "current" ELSE s
    /\ devices' = IF s # "current" THEN [u \in Uuids |-> NoDevice] ELSE ds
    /\ locators' = IF s # "current" THEN {} ELSE AllLocators(ds)

\* loadDevices: a device that cannot be read is read again without its bad items, or left out;
\* its file stays as it is.
Loads(d) ==
    IF "Load" \in Failing
    THEN {NoDevice} \cup {[i \in Items |-> IF i \in bad THEN Absent ELSE d[i]] :
                            bad \in SUBSET (Items \ {"device"})}
    ELSE {d}

\* What is in memory after initialising from the files ds and s.  Without a systemProperties
\* file, or with one that cannot be parsed, the database starts empty, whatever device files
\* there are.
InitializeFrom(ds, s, ok) ==
    /\ open' = TRUE
    /\ dirty' = {}
    /\ schema' = "current"
    /\ stored' = ds
    /\ storedSchema' = IF s # "current" /\ ok THEN "current" ELSE s
    /\ \/ /\ s = "none" \/ "Load" \in Failing
          /\ devices' = [u \in Uuids |-> NoDevice]
       \/ /\ s # "none"
          /\ \E loaded \in [Uuids -> UNION {Loads(ds[u]) : u \in Uuids}] :
                /\ \A u \in Uuids : loaded[u] \in Loads(ds[u])
                /\ devices' = loaded
    /\ locators' = AllLocators(devices')

jsonDatabaseInitialize(ok) ==
    /\ ~open
    /\ InitializeFrom(stored, storedSchema, ok)
    /\ UNCHANGED durable

\* All changes that were not written are dropped on purpose.
jsonDatabaseReload(ok) ==
    /\ open
    /\ InitializeFrom(stored, storedSchema, ok)
    /\ durable' = [u \in Uuids |-> [i \in Items |-> {stored[u][i]}]]

Forget ==
    /\ open' = FALSE
    /\ devices' = [u \in Uuids |-> NoDevice]
    /\ dirty' = {}
    /\ locators' = {}
    /\ schema' = "none"

\* The files are replaced by those of a backup, ds and s.  When that fails the maps are gone,
\* and any of the files may be there.
jsonDatabaseRestore(ds, s, copied, ok) ==
    /\ open
    /\ \/ /\ copied /\ s # "none"
          /\ InitializeFrom(ds, s, ok)
          /\ durable' = [u \in Uuids |-> [i \in Items |-> {ds[u][i]}]]
       \/ /\ ~copied
          /\ Forget
          /\ stored' = ds
          /\ storedSchema' = s
          /\ durable' = [u \in Uuids |-> [i \in Items |-> {ds[u][i], Absent}]]

\* The system properties and the entries marked dirty are written, except the writes that fail.
jsonDatabaseCleanup(failed, ok) ==
    /\ open
    /\ Forget
    /\ storedSchema' = IF ok THEN schema ELSE storedSchema
    /\ stored' = [u \in Uuids |-> IF u \in dirty \ failed THEN devices[u] ELSE stored[u]]
    /\ UNCHANGED durable

Crash ==
    /\ open
    /\ Forget
    /\ UNCHANGED <<stored, storedSchema, durable>>

jsonDatabaseSetSystemProperty(ok) ==
    /\ open
    /\ storedSchema' = IF ok THEN schema ELSE storedSchema
    /\ UNCHANGED <<open, devices, dirty, locators, schema, stored, durable>>

-----------------------------------------------------------------------------
(* Changing devices *)

\* The file of u is written with d, or the write fails.
saveDevice(u, d, ok) == stored' = IF ok THEN [stored EXCEPT ![u] = d] ELSE stored

\* What a restart may bring back once d is written (ok) or has only been tried.
Expect(u, d, ok) ==
    durable' = [durable EXCEPT ![u] =
        [i \in Items |-> IF ok THEN {d[i]} ELSE durable[u][i] \cup {d[i]}]]

\* The common tail of the functions that change a device of the cache.
ChangeAndSave(u, d, ok) ==
    /\ devices' = [devices EXCEPT ![u] = d]
    /\ saveDevice(u, d, ok)
    /\ dirty' = IF ok THEN dirty \ {u} ELSE dirty \cup {u}
    /\ Expect(u, d, ok)
    /\ UNCHANGED <<open, schema, storedSchema>>

\* For a uuid in use the new entry is destroyed, and with it the locators of its URIs.
jsonDatabaseAddDevice(u, d, ok) ==
    /\ open
    /\ UNCHANGED <<open, schema, storedSchema>>
    /\ \/ /\ Known(u) /\ AddKnown
          /\ locators' = locators \ ({u} \X Present(d))
          /\ UNCHANGED <<devices, dirty, stored, durable>>
       \/ /\ ~Known(u) /\ ok
          /\ devices' = [devices EXCEPT ![u] = d]
          /\ locators' = locators \cup ({u} \X Present(d))
          /\ dirty' = dirty \ {u}
          /\ saveDevice(u, d, TRUE)
          /\ Expect(u, d, TRUE)
       \/ /\ ~Known(u) /\ ~ok
          /\ UNCHANGED <<devices, locators, dirty, stored, durable>>

\* The entry is not marked dirty when the write fails, and the endpoint stays in memory.  When
\* the URI of one of its items is bad the endpoint is destroyed and its locator stays.
jsonDatabaseAddEndpoint(u, v, ok) ==
    LET d == [devices[u] EXCEPT !["endpoint2"] = v] IN
    /\ open /\ Known(u) /\ <<u, "endpoint2">> \notin locators
    /\ locators' = locators \cup {<<u, "endpoint2">>}
    /\ \/ /\ devices' = [devices EXCEPT ![u] = d]
          /\ saveDevice(u, d, ok)
          /\ Expect(u, d, ok)
       \/ /\ "Uri" \in Failing
          /\ UNCHANGED <<devices, stored, durable>>
    /\ UNCHANGED <<open, dirty, schema, storedSchema>>

\* A resource that cannot be written is taken out again.
jsonDatabaseAddResource(u, v, ok) ==
    LET d == [devices[u] EXCEPT !["resource2"] = v] IN
    /\ open /\ <<u, "device">> \in locators /\ <<u, "resource2">> \notin locators
    /\ ok
    /\ devices' = [devices EXCEPT ![u] = d]
    /\ locators' = locators \cup {<<u, "resource2">>}
    /\ saveDevice(u, d, TRUE)
    /\ Expect(u, d, TRUE)
    /\ UNCHANGED <<open, dirty, schema, storedSchema>>

\* Mutant: a lazy save does not mark the entry.
SaveResourceUnmarked(u, v, lazy, ok) ==
    LET d == [devices[u] EXCEPT !["resource"] = v] IN
    /\ open /\ <<u, "resource">> \in locators
    /\ UNCHANGED locators
    /\ \/ ~lazy /\ ChangeAndSave(u, d, ok)
       \/ /\ lazy
          /\ devices' = [devices EXCEPT ![u] = d]
          /\ Expect(u, d, FALSE)
          /\ UNCHANGED <<open, dirty, stored, schema, storedSchema>>

\* RESOURCE_MODE_LAZY_SAVE_NEXT: the entry is marked dirty and written some other time.
jsonDatabaseSaveResource(u, v, lazy, ok) ==
    LET d == [devices[u] EXCEPT !["resource"] = v] IN
    /\ open /\ <<u, "resource">> \in locators
    /\ UNCHANGED locators
    /\ \/ ~lazy /\ ChangeAndSave(u, d, ok)
       \/ lazy /\ ChangeAndSave(u, d, FALSE)

\* Always lazy.
jsonDatabaseUpdateDateOfLastSyncMillis(u, v) ==
    /\ open /\ <<u, "resource">> \in locators
    /\ ChangeAndSave(u, [devices[u] EXCEPT !["resource"] = v], FALSE)
    /\ UNCHANGED locators

\* A new profile version v brings new resources w with it.
jsonDatabaseSaveEndpoint(u, v, w, ok) ==
    /\ open /\ <<u, "endpoint">> \in locators
    /\ ChangeAndSave(u, IF v = devices[u]["endpoint"] THEN devices[u]
                        ELSE [devices[u] EXCEPT !["endpoint"] = v, !["resource"] = w], ok)
    /\ locators' = locators \cup IF v = devices[u]["endpoint"] THEN {} ELSE {<<u, "resource">>}

\* Updates metadata, or creates it where there is a device.  For metadata of an endpoint that
\* the device does not have, the device is written as it is.  New metadata with a bad URI stays
\* in the device, which is neither marked nor written.
jsonDatabaseSaveMetadata(u, v, ok) ==
    /\ open /\ (Known(u) \/ <<u, "metadata">> \in locators)
    /\ \/ /\ locators' = locators \cup {<<u, "metadata">>}
          /\ ChangeAndSave(u, [devices[u] EXCEPT !["metadata"] = v], ok)
       \/ /\ UNCHANGED locators
          /\ ChangeAndSave(u, devices[u], ok)
       \/ /\ "Uri" \in Failing /\ <<u, "metadata">> \notin locators
          /\ devices' = [devices EXCEPT ![u]["metadata"] = v]
          /\ Expect(u, devices'[u], FALSE)
          /\ UNCHANGED <<open, dirty, locators, stored, schema, storedSchema>>

jsonDatabaseRemoveMetadataByUri(u, ok) ==
    /\ open /\ <<u, "metadata">> \in locators
    /\ locators' = locators \ {<<u, "metadata">>}
    /\ ChangeAndSave(u, [devices[u] EXCEPT !["metadata"] = Absent], ok)

\* Mutant: the device is dropped from the map, its locators are not.
RemoveDeviceKeepsLocators(u, ok) ==
    /\ open /\ Known(u)
    /\ ok
    /\ devices' = [devices EXCEPT ![u] = NoDevice]
    /\ dirty' = dirty \ {u}
    /\ saveDevice(u, NoDevice, TRUE)
    /\ Expect(u, NoDevice, TRUE)
    /\ UNCHANGED <<open, locators, schema, storedSchema>>

\* Mutant: a device whose file cannot be deleted is dropped from the map all the same.
RemoveDeviceIgnoresStorage(u, ok) ==
    /\ open /\ Known(u)
    /\ devices' = [devices EXCEPT ![u] = NoDevice]
    /\ locators' = locators \ ({u} \X Present(devices[u]))
    /\ dirty' = dirty \ {u}
    /\ saveDevice(u, NoDevice, ok)
    /\ Expect(u, NoDevice, ok)
    /\ UNCHANGED <<open, schema, storedSchema>>

\* A device whose file cannot be deleted stays.
jsonDatabaseRemoveDeviceById(u, ok) ==
    /\ open /\ Known(u)
    /\ ok
    /\ devices' = [devices EXCEPT ![u] = NoDevice]
    /\ locators' = locators \ ({u} \X Present(devices[u]))
    /\ dirty' = dirty \ {u}
    /\ saveDevice(u, NoDevice, TRUE)
    /\ Expect(u, NoDevice, TRUE)
    /\ UNCHANGED <<open, schema, storedSchema>>

Next ==
    \/ \E ok \in Outcomes("Initialize") : \/ jsonDatabaseInitialize(ok)
                                          \/ jsonDatabaseReload(ok)
    \/ \E ds \in [Uuids -> NewDevices \cup {NoDevice}], s \in Schemas,
          copied \in Outcomes("Restore"), ok \in Outcomes("Initialize") :
          jsonDatabaseRestore(ds, s, copied, ok)
    \/ \E failed \in IF "Cleanup" \in Failing THEN SUBSET Uuids ELSE {{}},
          ok \in Outcomes("Cleanup") : jsonDatabaseCleanup(failed, ok)
    \/ Crash
    \/ \E ok \in Outcomes("SetSystemProperty") : jsonDatabaseSetSystemProperty(ok)
    \/ \E u \in Uuids :
          \/ \E d \in NewDevices, ok \in Outcomes("AddDevice") : jsonDatabaseAddDevice(u, d, ok)
          \/ \E v \in Values :
                \/ \E ok \in Outcomes("AddEndpoint") : jsonDatabaseAddEndpoint(u, v, ok)
                \/ \E ok \in Outcomes("AddResource") : jsonDatabaseAddResource(u, v, ok)
                \/ \E ok \in Outcomes("Save") :
                      \/ \E lazy \in BOOLEAN : jsonDatabaseSaveResource(u, v, lazy, ok)
                      \/ \E w \in Values : jsonDatabaseSaveEndpoint(u, v, w, ok)
                      \/ jsonDatabaseSaveMetadata(u, v, ok)
                \/ jsonDatabaseUpdateDateOfLastSyncMillis(u, v)
          \/ \E ok \in Outcomes("Save") : jsonDatabaseRemoveMetadataByUri(u, ok)
          \/ \E ok \in Outcomes("Remove") : jsonDatabaseRemoveDeviceById(u, ok)

Spec == Init /\ [][Next]_vars

-----------------------------------------------------------------------------
(* Looking things up *)

jsonDatabaseGetDeviceById(u) == devices[u]

\* The device that owns the item of a URI.
jsonDatabaseGetDeviceByUri(u, i) == IF <<u, i>> \in locators THEN devices[u] ELSE NoDevice

\* A resource, endpoint or metadata by its URI.
jsonDatabaseGetResourceByUri(u, i) == IF <<u, i>> \in locators THEN devices[u][i] ELSE Absent

\* All items of a kind whose URIs match.
getItemsByUriRegex(kind) == {p \in locators : p[2] = kind}

-----------------------------------------------------------------------------
(* Properties *)

\* jsonDatabaseGetResourceByUri and its siblings answer from resourcesByUri, jsonDatabaseGetDeviceById
\* from devices: whatever was added, replaced, removed or reloaded, the two maps describe the
\* same items, so an item of a known device is found by its URI and no locator outlives its item.
LookupsAgree ==
    /\ \A u \in Uuids, i \in Items :
          jsonDatabaseGetResourceByUri(u, i) = jsonDatabaseGetDeviceById(u)[i]
    /\ \A i \in Items : \A p \in getItemsByUriRegex(i) : i \in Present(devices[p[1]])

\* "keeps track of which devices might be dirty and require flushing to disk": an entry that
\* is not marked has in memory what its file has, so jsonDatabaseCleanup loses nothing by
\* writing only the marked ones.
CleanIsStored ==
    open => \A u \in Uuids \ dirty : Known(u) => devices[u] = stored[u]

\* Values a caller was told are saved survive a crash and a restart at any time: each item, in
\* its file and again in memory after jsonDatabaseInitialize, has the last value that was
\* written, or one of the later values of lazy or failed saves.
SavedSurvives ==
    /\ \A u \in Uuids, i \in Items : stored[u][i] \in durable[u][i]
    /\ open => \A u \in Uuids, i \in Items : devices[u][i] \in durable[u][i]

\* A step that makes a device unknown to a running database has also removed its file: the
\* device does not come back with the next start.
RemovedIsForgotten ==
    [][\A u \in Uuids : (Known(u) /\ open' /\ ~Known(u)') => stored'[u] = NoDevice]_vars

=============================================================================
