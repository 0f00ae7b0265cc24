----------------------------- MODULE MediaStore -----------------------------
(***************************************************************************)
(* IngestPipeline._ingest_media with MediaRepository and the object store: *)
(* a file is downloaded, looked up by its hash, uploaded under a key made  *)
(* of the day and the hash, and given a row of media_files.  Workers run   *)
(* it at the same time, for the same file too: nothing is locked between   *)
(* the lookup and the insert.  A file stands for the SHA-256 of its bytes. *)
(***************************************************************************)
EXTENDS Integers, FiniteSets

CONSTANTS
    Workers,     \* the callers: _process handles one attachment at a time
    Files,       \* files by content hash
    Images,      \* those that are images, stored with a thumbnail
    NoFile,      \* what an idle worker works on
    NoMedia,     \* no row; nothing returned
    MaxDay       \* bound: the last day of a behaviour

ASSUME MediaAssumption ==
    /\ Images \subseteq Files
    /\ NoFile \notin Files
    /\ NoMedia \notin (Workers \X Nat)
    /\ MaxDay \in Nat

VARIABLES
    today,     \* the day utcnow() falls on
    objects,   \* keys of the object store
    rows,      \* media_files: the row of each content hash
    at,        \* where each worker is
    file,      \* the file it works on
    when,      \* the day it took for the keys
    media      \* the row it returned

vars == <<today, objects, rows, at, file, when, media>>

(* A row is told from others by who made it and for which day's key.       *)
MediaRows == Workers \X Nat

(* build_storage_key.                                                      *)
FullKey(f, day)  == <<day, f, "full">>
ThumbKey(f, day) == <<day, f, "thumb">>

KeysOf(f, r) == {FullKey(f, r[2])} \cup IF f \in Images THEN {ThumbKey(f, r[2])} ELSE {}

Busy == {"download", "lookup", "put", "put_thumb", "select", "insert"}

Init ==
    /\ today = 0
    /\ objects = {}
    /\ rows = [f \in Files |-> NoMedia]
    /\ at = [w \in Workers |-> "idle"]
    /\ file = [w \in Workers |-> NoFile]
    /\ when = [w \in Workers |-> 0]
    /\ media = [w \in Workers |-> NoMedia]

GoTo(w, point) == at' = [at EXCEPT ![w] = point]

Return(w, m) == GoTo(w, "done") /\ media' = [media EXCEPT ![w] = m]

-----------------------------------------------------------------------------
(* Faulty variants of actions below, used only for mutation testing.       *)

(* The object that is made to be saved is returned, saved or not.          *)
InsertReturningOwn(w) ==
    /\ at[w] = "insert"
    /\ rows' = [rows EXCEPT ![file[w]] = IF @ = NoMedia THEN <<w, when[w]>> ELSE @]
    /\ Return(w, <<w, when[w]>>)
    /\ UNCHANGED <<today, objects, file, when>>

(* The key of the upload returned in the place of the row.                 *)
InsertReturningKey(w) ==
    /\ at[w] = "insert"
    /\ rows' = [rows EXCEPT ![file[w]] = IF @ = NoMedia THEN <<w, when[w]>> ELSE @]
    /\ Return(w, FullKey(file[w], when[w]))
    /\ UNCHANGED <<today, objects, file, when>>

(* A thumbnail that cannot be stored is given up.                          *)
PutThumbOrNot(w) ==
    /\ at[w] = "put_thumb"
    /\ \/ objects' = objects \cup {ThumbKey(file[w], when[w])}
       \/ UNCHANGED objects
    /\ GoTo(w, "select")
    /\ UNCHANGED <<today, rows, file, when, media>>

-----------------------------------------------------------------------------
Midnight == today < MaxDay /\ today' = today + 1 /\ UNCHANGED <<objects, rows, at, file, when, media>>

Begin(w, f) ==
    /\ at[w] \in {"idle", "done"}
    /\ GoTo(w, "download")
    /\ file' = [file EXCEPT ![w] = f]
    /\ media' = [media EXCEPT ![w] = NoMedia]
    /\ UNCHANGED <<today, objects, rows, when>>

Download(w) ==
    /\ at[w] = "download"
    /\ GoTo(w, "lookup")
    /\ UNCHANGED <<today, objects, rows, file, when, media>>

(* File-level dedup: get_by_hash, and utcnow() when there is no row.       *)
Known(w) ==
    /\ at[w] = "lookup"
    /\ rows[file[w]] # NoMedia
    /\ Return(w, rows[file[w]])
    /\ UNCHANGED <<today, objects, rows, file, when>>

Unknown(w) ==
    /\ at[w] = "lookup"
    /\ rows[file[w]] = NoMedia
    /\ when' = [when EXCEPT ![w] = today]
    /\ GoTo(w, "put")
    /\ UNCHANGED <<today, objects, rows, file, media>>

(* Uploads overwrite: the same key holds the same bytes.                   *)
Put(key) == objects' = objects \cup {key}

PutFull(w) ==
    /\ at[w] = "put"
    /\ Put(FullKey(file[w], when[w]))
    /\ GoTo(w, IF file[w] \in Images THEN "put_thumb" ELSE "select")
    /\ UNCHANGED <<today, rows, file, when, media>>

PutThumb(w) ==
    /\ at[w] = "put_thumb"
    /\ Put(ThumbKey(file[w], when[w]))
    /\ GoTo(w, "select")
    /\ UNCHANGED <<today, rows, file, when, media>>

(* upsert looks again before it inserts.                                   *)
Existing(w) ==
    /\ at[w] = "select"
    /\ rows[file[w]] # NoMedia
    /\ Return(w, rows[file[w]])
    /\ UNCHANGED <<today, objects, rows, file, when>>

Absent(w) ==
    /\ at[w] = "select"
    /\ rows[file[w]] = NoMedia
    /\ GoTo(w, "insert")
    /\ UNCHANGED <<today, objects, rows, file, when, media>>

(* ON CONFLICT DO NOTHING; who inserts nothing fetches the winner.         *)
Insert(w) ==
    /\ at[w] = "insert"
    /\ rows' = [rows EXCEPT ![file[w]] = IF @ = NoMedia THEN <<w, when[w]>> ELSE @]
    /\ Return(w, rows'[file[w]])
    /\ UNCHANGED <<today, objects, file, when>>

(* A download that fails or is empty gives nothing; whatever else raises   *)
(* is logged by the caller, which goes on without the attachment.          *)
GiveUp(w) ==
    /\ at[w] \in Busy
    /\ Return(w, NoMedia)
    /\ UNCHANGED <<today, objects, rows, file, when>>

(* The process ends and starts again: uploads without a row stay behind.   *)
Restart ==
    /\ at' = [w \in Workers |-> "idle"]
    /\ file' = [w \in Workers |-> NoFile]
    /\ when' = [w \in Workers |-> 0]
    /\ media' = [w \in Workers |-> NoMedia]
    /\ UNCHANGED <<today, objects, rows>>

Next ==
    \/ Midnight \/ Restart
    \/ \E w \in Workers, f \in Files : Begin(w, f)
    \/ \E w \in Workers :
        \/ Download(w) \/ Known(w) \/ Unknown(w) \/ PutFull(w) \/ PutThumb(w)
        \/ Existing(w) \/ Absent(w) \/ Insert(w) \/ GiveUp(w)

Spec == Init /\ [][Next]_vars

-----------------------------------------------------------------------------
(* Every variable has its type.                                            *)
TypeOK ==
    /\ today \in Nat
    /\ objects \subseteq Nat \X Files \X {"full", "thumb"}
    /\ rows \in [Files -> MediaRows \cup {NoMedia}]
    /\ at \in [Workers -> Busy \cup {"idle", "done"}]
    /\ file \in [Workers -> Files \cup {NoFile}]
    /\ \A w \in Workers : at[w] # "idle" => file[w] \in Files
    /\ when \in [Workers -> Nat]
    /\ media \in [Workers -> MediaRows \cup {NoMedia}]

(* A row of media_files never points at an object that is not there: the   *)
(* publisher sends its URL to Telegram as it stands.  Uploads come before  *)
(* the row, whichever upload of which day the row is made from.            *)
RowsHaveObjects == \A f \in Files : rows[f] # NoMedia => KeysOf(f, rows[f]) \subseteq objects

(* What a worker goes on to link to its article is the row of the table,   *)
(* also when it lost the race and had made a row of its own, and it stays  *)
(* so: article_media refers to it.                                         *)
ReturnedIsStored ==
    \A w \in Workers : media[w] # NoMedia => media[w] = rows[file[w]]
=============================================================================
