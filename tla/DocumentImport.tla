--------------------------- MODULE DocumentImport ---------------------------
(***************************************************************************)
(* Uploads of knowledge documents and the jobs that parse them:            *)
(* app/knowledge_admin.py (lineages and versions), the document import of  *)
(* app/background.py and the rows they write through app/repository.py.    *)
(* A file is its content: equal contents have equal hashes.  An upload     *)
(* looks for its document, then for its version, commits, and enqueues the *)
(* job in a second commit.  The body of the job commits all chunks at once,*)
(* then marks the version ready, and then enqueues the index job.          *)
(***************************************************************************)
EXTENDS Integers, Sequences, FiniteSets, FiniteSetsExt

CONSTANTS
    FileNames,
    Uploads,       \* contents that may be uploaded
    Pieces,        \* content -> number of its chunks
    Unparseable,   \* contents the parser refuses
    Repetitive,    \* contents with two equal chunks
    Senders,       \* uploads in progress
    Attempts,      \* attempts of the import jobs
    MaxImportTries,    \* attempts a job may fail
    MaxVersions,   \* bound on the versions
    MaxMishaps     \* bound on crashes and lapsed leases

ASSUME ImportAssumption ==
    /\ Pieces \in [Uploads -> Nat \ {0}]
    /\ Unparseable \cup Repetitive \subseteq Uploads
    /\ {MaxImportTries, MaxVersions, MaxMishaps} \subseteq Nat

VARIABLES
    single,     \* whether uploads come one at a time
    documents,  \* documents, in the order of their ids: filename and first content
    versions,   \* document_versions, in the order of their ids
    pieces,     \* document_chunks: version -> chunk_no
    jobs,       \* the import job of a version: none, queued, running, succeeded, failed
    indexing,   \* versions whose index job was enqueued
    tries,      \* failed attempts of a job
    mishaps,    \* crashes and lapsed leases so far
    sender,     \* uploads: step, name and content, document, number, version
    attempt     \* attempts: step and version

docVars == <<single, documents, versions, pieces, jobs, indexing, tries, mishaps, sender, attempt>>

NoUpload == [step |-> "idle"]
NoAttempt == [step |-> "idle"]

DocumentsInit ==
    /\ single \in BOOLEAN
    /\ documents = << >> /\ versions = << >> /\ pieces = << >> /\ jobs = << >>
    /\ indexing = {} /\ tries = << >> /\ mishaps = 0
    /\ sender = [c \in Senders |-> NoUpload]
    /\ attempt = [a \in Attempts |-> NoAttempt]

-----------------------------------------------------------------------------
(* Uploads *)

(* The documents a file belongs to: those that began with its content, or  *)
(* else those of its name.                                                 *)
Lineage(name, content) ==
    LET same == {d \in DOMAIN documents : documents[d].first = content}
    IN IF same # {} THEN same ELSE {d \in DOMAIN documents : documents[d].name = name}

VersionsOf(d) == {v \in DOMAIN versions : versions[v].doc = d}

NewVersion(d, content, no) == [doc |-> d, content |-> content, no |-> no, status |-> "parsing"]

(* A version is added with its commit; it has no chunks and no job yet.    *)
AddVersion(d, content, no) ==
    /\ versions' = Append(versions, NewVersion(d, content, no))
    /\ pieces' = Append(pieces, {})
    /\ jobs' = Append(jobs, "none")
    /\ tries' = Append(tries, 0)

(* resolve_lineage by name and content, or a version for a given document. *)
StartUpload(c) ==
    /\ sender[c].step = "idle" /\ (single => \A d \in Senders : sender[d].step = "idle")
    /\ Len(versions) < MaxVersions
    /\ \E name \in FileNames, content \in Uploads :
          \E d \in {0} \cup {e \in DOMAIN documents : documents[e].name = name} :
              LET found == IF d # 0 THEN {d} ELSE Lineage(name, content)
              IN sender' = [sender EXCEPT ![c] =
                     [step |-> IF found = {} THEN "new" ELSE "lookup", name |-> name,
                      content |-> content, doc |-> IF found = {} THEN 0 ELSE Min(found)]]
    /\ UNCHANGED <<single, documents, versions, pieces, jobs, indexing, tries, mishaps, attempt>>

(* The insert of a document is flushed, and its first version committed    *)
(* with it.  The content of a document is unique.                          *)
CreateDocument(c) ==
    LET u == sender[c]
        id == Len(documents) + 1
    IN /\ u.step = "new" /\ \A d \in DOMAIN documents : documents[d].first # u.content
       /\ documents' = Append(documents, [name |-> u.name, first |-> u.content])
       /\ AddVersion(id, u.content, 1)
       /\ sender' = [sender EXCEPT ![c] = [step |-> "enqueue", version |-> Len(versions) + 1]]
       /\ UNCHANGED <<single, indexing, mishaps, attempt>>

(* The version of this content exists: the upload is answered with a job   *)
(* that has nothing to do.  Else the next number is read.                  *)
LookUpVersion(c) ==
    LET u == sender[c]
    IN /\ u.step = "lookup"
       /\ sender' = [sender EXCEPT ![c] =
              IF \E v \in VersionsOf(u.doc) : versions[v].content = u.content THEN NoUpload
              ELSE [step |-> "insert", doc |-> u.doc, content |-> u.content,
                    no |-> 1 + Max({0} \cup {versions[v].no : v \in VersionsOf(u.doc)})]]
       /\ UNCHANGED <<single, documents, versions, pieces, jobs, indexing, tries, mishaps, attempt>>

(* Number and content are unique in a document.                            *)
InsertVersion(c) ==
    LET u == sender[c]
    IN /\ u.step = "insert" /\ Len(versions) < MaxVersions
       /\ \A v \in VersionsOf(u.doc) : versions[v].no # u.no /\ versions[v].content # u.content
       /\ AddVersion(u.doc, u.content, u.no)
       /\ sender' = [sender EXCEPT ![c] = [step |-> "enqueue", version |-> Len(versions) + 1]]
       /\ UNCHANGED <<single, documents, indexing, mishaps, attempt>>

EnqueueImport(c) ==
    /\ sender[c].step = "enqueue"
    /\ jobs' = [jobs EXCEPT ![sender[c].version] = "queued"]
    /\ sender' = [sender EXCEPT ![c] = NoUpload]
    /\ UNCHANGED <<single, documents, versions, pieces, indexing, tries, mishaps, attempt>>

(* A constraint refuses the insert, or the request dies between its commits.*)
UploadEnds(c) ==
    /\ sender[c].step # "idle"
    /\ sender' = [sender EXCEPT ![c] = NoUpload]
    /\ mishaps' = IF sender[c].step = "enqueue" THEN mishaps + 1 ELSE mishaps
    /\ mishaps' <= MaxMishaps
    /\ UNCHANGED <<single, documents, versions, pieces, jobs, indexing, tries, attempt>>

-----------------------------------------------------------------------------
(* The body of the job *)

SetStatus(v, status) == versions' = [versions EXCEPT ![v].status = status]

Step(a, step) == attempt' = [attempt EXCEPT ![a].step = step]

(* A queued job is claimed, or one whose lease lapsed is claimed again     *)
(* while the attempt before goes on or after it died.                      *)
ClaimImport(a) ==
    /\ attempt[a].step = "idle"
    /\ \E v \in DOMAIN versions :
          /\ \/ jobs[v] = "queued" /\ UNCHANGED mishaps
             \/ jobs[v] = "running" /\ mishaps < MaxMishaps /\ mishaps' = mishaps + 1
          /\ jobs' = [jobs EXCEPT ![v] = "running"]
          /\ attempt' = [attempt EXCEPT ![a] = [step |-> "parse", version |-> v]]
    /\ UNCHANGED <<single, documents, versions, pieces, indexing, tries, sender>>

(* Mutant of MarksFailed: the version is not told.                         *)
MarksFailedIfReady(v) == versions[v].status = "ready"

MarksFailed(v) == versions[v].content \in Unparseable

(* The attempt raises: the job waits for another, or has failed for good.  *)
Raise(a, v) ==
    /\ attempt' = [attempt EXCEPT ![a] = NoAttempt]
    /\ tries' = [tries EXCEPT ![v] = @ + 1]
    /\ jobs' = IF jobs[v] # "running" THEN jobs
               ELSE [jobs EXCEPT ![v] = IF tries[v] < MaxImportTries THEN "queued" ELSE "failed"]

ParseFails(a) ==
    LET v == attempt[a].version
    IN /\ attempt[a].step = "parse" /\ versions[v].content \in Unparseable
       /\ IF MarksFailed(v) THEN SetStatus(v, "failed") ELSE UNCHANGED versions
       /\ Raise(a, v)
       /\ UNCHANGED <<single, documents, pieces, indexing, mishaps, sender>>

(* Chunks are unique by number and by hash within a version.               *)
ChunksFit(v) == pieces[v] = {} /\ versions[v].content \notin Repetitive

CommitChunks(a) ==
    LET v == attempt[a].version
    IN /\ attempt[a].step = "parse" /\ versions[v].content \notin Unparseable /\ ChunksFit(v)
       /\ pieces' = [pieces EXCEPT ![v] = 1..Pieces[versions[v].content]]
       /\ Step(a, "ready")
       /\ UNCHANGED <<single, documents, versions, jobs, indexing, tries, mishaps, sender>>

(* The first attempt's chunks are in the way; all is rolled back, and the  *)
(* version is left as it was.                                              *)
ChunksRefused(a) ==
    LET v == attempt[a].version
    IN /\ attempt[a].step = "parse" /\ versions[v].content \notin Unparseable /\ ~ChunksFit(v)
       /\ Raise(a, v)
       /\ UNCHANGED <<single, documents, versions, pieces, indexing, mishaps, sender>>

MarkReady(a) ==
    /\ attempt[a].step = "ready"
    /\ SetStatus(attempt[a].version, "ready")
    /\ Step(a, "index")
    /\ UNCHANGED <<single, documents, pieces, jobs, indexing, tries, mishaps, sender>>

(* submit_chunk_index, and the job is finished.                            *)
FinishImport(a) ==
    LET v == attempt[a].version
    IN /\ attempt[a].step = "index"
       /\ indexing' = indexing \cup {v}
       /\ jobs' = IF jobs[v] = "running" THEN [jobs EXCEPT ![v] = "succeeded"] ELSE jobs
       /\ attempt' = [attempt EXCEPT ![a] = NoAttempt]
       /\ UNCHANGED <<single, documents, versions, pieces, tries, mishaps, sender>>

(* The process dies in the middle of the body.                             *)
AttemptDies(a) ==
    /\ attempt[a].step # "idle" /\ mishaps < MaxMishaps
    /\ mishaps' = mishaps + 1
    /\ jobs' = [jobs EXCEPT ![attempt[a].version] = IF @ = "running" THEN "queued" ELSE @]
    /\ attempt' = [attempt EXCEPT ![a] = NoAttempt]
    /\ UNCHANGED <<single, documents, versions, pieces, indexing, tries, sender>>

DocumentsNext ==
    \/ \E c \in Senders : \/ StartUpload(c) \/ CreateDocument(c) \/ LookUpVersion(c)
                          \/ InsertVersion(c) \/ EnqueueImport(c) \/ UploadEnds(c)
    \/ \E a \in Attempts : \/ ClaimImport(a) \/ ParseFails(a) \/ CommitChunks(a) \/ ChunksRefused(a)
                           \/ MarkReady(a) \/ FinishImport(a) \/ AttemptDies(a)

DocumentsSpec == DocumentsInit /\ [][DocumentsNext]_docVars

-----------------------------------------------------------------------------
(* Properties *)

(* Whatever attempts overlap, die or run again, a version is ready only    *)
(* with all chunks of its content, and is indexed only when it is ready.   *)
(* If nothing died and no lease lapsed, a job that is over has told its    *)
(* version: it is ready, or failed, unless two of its chunks are equal; and*)
(* no version is left without a job once its upload is over.               *)
ImportedIsWhole ==
    \A v \in DOMAIN versions :
        /\ versions[v].status = "ready" => pieces[v] = 1..Pieces[versions[v].content]
        /\ v \in indexing \/ jobs[v] = "succeeded" => versions[v].status = "ready"
        /\ mishaps = 0 =>
              /\ jobs[v] = "failed" => \/ versions[v].status = "failed"
                                       \/ versions[v].content \in Repetitive
              /\ jobs[v] = "none" => \E c \in Senders : sender[c] = [step |-> "enqueue", version |-> v]

(* Served one at a time, uploads of one name end up in one document, unless*)
(* their content began another, whose versions are numbered without gaps.  *)
LineagesHold ==
    single =>
        /\ \A d, e \in DOMAIN documents : documents[d].name = documents[e].name => d = e
        /\ \A d \in DOMAIN documents :
              {versions[v].no : v \in VersionsOf(d)} = 1..Cardinality(VersionsOf(d))

(* A document's versions are whole or say that they are not, and follow one*)
(* another (ingest_document, execute_document_import_job).                 *)
DocumentsHold == ImportedIsWhole /\ LineagesHold
=============================================================================
