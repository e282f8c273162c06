------------------------------- MODULE Ingest -------------------------------
(***************************************************************************)
(* Ingestion: the watch folder the user edits, the scans that look at it   *)
(* (internal/ingest/scanner.go), the job queue they feed (JobStore), the   *)
(* workers that run FileHandler.HandleJob on its jobs (handler.go), and    *)
(* the object store, blob, artifact and extraction rows these fill.        *)
(*                                                                         *)
(* A file's content stands for its sha256: HashFile and StoreFile compute  *)
(* it from whatever the file holds when they read it.  A job's payload and *)
(* its dedupe key (SourceID) are the pair of a path and a content; the     *)
(* artifact of that pair (ArtifactID) is named by it.                      *)
(***************************************************************************)
EXTENDS Integers, FiniteSets

CONSTANTS
  Path,           \* files of the watch folder
  Types,          \* bound: types of files, of "pdf", "image", "text", "other"
  Providers,      \* bound: cfg.Extract.Provider, of "docling", "local"
  ForceOCR,       \* cfg.Extract.Docling.ForceOCR (FALSE)
  Content,        \* what a file may hold
  NoFile,         \* no such file, or nothing read
  Torn,           \* bytes of a file that was written while they were copied
  MaxEdits,       \* bound: how often the user touches the folder
  Undecodable,    \* contents that are not valid UTF-8
  HandlerErrors,  \* subset of {"transient", "permanent"}: a statement or a
                  \* conversion fails, a tool is not installed
  Echoes,         \* of each provider, the Phrases that what it says of a failed
                  \* conversion may contain
  JobId, NoJob, NoKey, Worker, NoWorker, Enqueuer, MaxAttempts, Faults

ASSUME TypesAssumption == Types \subseteq {"pdf", "image", "text", "other"}
(* What isPermanentExtractError looks for in the text of an error. *)
Phrases == {"not installed or not on path", "unsupported artifact type", "not valid utf-8"}

ASSUME ProvidersAssumption == Providers \subseteq {"docling", "local"}
ASSUME ForceOCRAssumption == ForceOCR \in BOOLEAN
ASSUME ContentAssumption == NoFile \notin Content /\ Torn \notin Content
ASSUME EchoesAssumption == Echoes \in [Providers -> SUBSET Phrases]
ASSUME ErrorAssumption == HandlerErrors \subseteq {"transient", "permanent"}
ASSUME EditsAssumption == MaxEdits \in Nat
ASSUME NamesAssumption == /\ NoJob \notin JobId
                          /\ NoWorker \notin Worker
                          /\ NoKey \notin Path \X Content
ASSUME QueueAssumption == MaxAttempts \subseteq Nat \ {0} /\ Faults \subseteq {"lose", "stop"}

VARIABLES
  jobs, now, enq, held, up,   \* the queue (JobStore)
  type,       \* of each path, by its extension (DetectFile)
  provider,   \* which extractor the configuration names
  folder,     \* what each path holds
  settled,    \* was it left alone for SettleDuration?
  edits,      \* number of edits so far
  scan,       \* where each scan is in its walk function
  watch,      \* the watch_file_state table
  handler,    \* where each worker is in HandleJob
  objects,    \* contents stored under archive/objects
  blobs,      \* the blob table
  artifacts,  \* the artifact table
  texts       \* artifacts with extracted_text, search_document and chunks

queueVars == <<jobs, now, enq, held, up>>
userVars == <<type, provider, folder, settled, edits>>
archiveVars == <<objects, blobs, artifacts, texts>>
vars == <<queueVars, userVars, scan, watch, handler, archiveVars>>

Version == Path \X Content

Queue == INSTANCE JobStore WITH
  Key <- Version, Priority <- {0},
  BackoffBase <- 1, BackoffCap <- 1, TicksPerSecond <- 1,
  TextPlace <- [fraction \in {0} |-> 0], MaxTime <- 0

NotScanning == [pc |-> "idle", path |-> NoFile, hash |-> NoFile]
NotHandling == "idle"
Unseen == [hash |-> NoFile, job |-> NoJob, ignored |-> "never seen"]

Init ==
  /\ Queue!Init
  /\ type \in [Path -> Types]
  /\ provider \in Providers
  /\ folder \in [Path -> Content \cup {NoFile}]
  /\ settled = [p \in Path |-> FALSE]
  /\ edits = 0
  /\ scan = [e \in Enqueuer |-> NotScanning]
  /\ watch = [p \in Path |-> Unseen]
  /\ handler = [w \in Worker |-> NotHandling]
  /\ objects = {}
  /\ blobs = {}
  /\ artifacts = {}
  /\ texts = {}

-----------------------------------------------------------------------------
Payload(w) == jobs[held[w].job].key

(* copyWithContext reads a file piece by piece. *)
Copying(p) == {w \in Worker : handler[w] = "store" /\ Payload(w)[1] = p /\ folder[p] # NoFile}

(* The user: writes, rewrites or removes a file; the program never does.   *)
(* Who is copying a file that is changed may get some of each.             *)
Edit(p, c) ==
  /\ edits < MaxEdits
  /\ folder' = [folder EXCEPT ![p] = c]
  /\ settled' = [settled EXCEPT ![p] = FALSE]
  /\ edits' = edits + 1
  /\ \E torn \in SUBSET Copying(p) :
       /\ torn # {} => c \notin {folder[p], NoFile}
       /\ handler' = [w \in Worker |-> IF w \in torn THEN "torn" ELSE handler[w]]
  /\ UNCHANGED <<type, provider, queueVars, scan, watch, archiveVars>>

(* The file was not modified for SettleDuration. *)
Settle(p) ==
  /\ folder[p] # NoFile /\ ~settled[p]
  /\ settled' = [settled EXCEPT ![p] = TRUE]
  /\ UNCHANGED <<type, provider, queueVars, folder, edits, scan, watch, handler, archiveVars>>

-----------------------------------------------------------------------------
(* Scan: the walk function on one file, statement by statement.  What it   *)
(* learned in an earlier statement may be out of date in a later one.      *)

(* entry.Info and the settle check. *)
ScanFile(e, p) ==
  /\ up
  /\ scan[e].pc = "idle"
  /\ folder[p] # NoFile
  /\ scan' = [scan EXCEPT ![e] =
       [pc |-> IF ~settled[p] THEN "settling"
               ELSE IF type[p] = "other" THEN "unsupported" ELSE "hash",
        path |-> p, hash |-> NoFile]]
  /\ UNCHANGED <<queueVars, userVars, watch, handler, archiveVars>>

(* Why a file is skipped. *)
SkipReasons == {"settling", "unsupported", "read error"}

(* upsertWatchState of a file that is skipped in this scan. *)
ScanSkip(e) ==
  /\ scan[e].pc \in SkipReasons
  /\ watch' = [watch EXCEPT ![scan[e].path] =
                 [hash |-> NoFile, job |-> NoJob, ignored |-> scan[e].pc]]
  /\ scan' = [scan EXCEPT ![e] = NotScanning]
  /\ UNCHANGED <<queueVars, userVars, handler, archiveVars>>

(* blobs.HashFile: reads what the file holds now. *)
ScanHash(e) ==
  /\ scan[e].pc = "hash"
  /\ LET p == scan[e].path
     IN  scan' = [scan EXCEPT ![e] =
           [pc |-> IF folder[p] = NoFile THEN "read error" ELSE "enqueue",
            path |-> p, hash |-> folder[p]]]
  /\ UNCHANGED <<queueVars, userVars, watch, handler, archiveVars>>

(* Jobs.Enqueue with the dedupe key of this path and content. *)
ScanEnqueue(e) ==
  /\ scan[e].pc = "enqueue"
  /\ \E m \in MaxAttempts : Queue!Enqueue(e, <<scan[e].path, scan[e].hash>>, 0, m)
  /\ scan' = [scan EXCEPT ![e].pc = "enqueuing"]
  /\ UNCHANGED <<userVars, watch, handler, archiveVars>>

ScanEnqueuing(e) ==
  /\ Queue!Insert(e) \/ Queue!Refind(e)
  /\ UNCHANGED <<userVars, scan, watch, handler, archiveVars>>

(* Mutant of ScanRecord: hashes the file again for the watch row. *)
ScanRecordAnew(e) ==
  /\ scan[e].pc = "enqueuing"
  /\ enq[e].pc \in {"returned", "error"}
  /\ watch' = [watch EXCEPT ![scan[e].path] =
       [hash |-> folder[scan[e].path], job |-> enq[e].job, ignored |-> "no"]]
  /\ scan' = [scan EXCEPT ![e] = NotScanning]
  /\ UNCHANGED <<queueVars, userVars, handler, archiveVars>>

(* upsertWatchState with the job that Enqueue returned. *)
ScanRecord(e) ==
  /\ scan[e].pc = "enqueuing"
  /\ enq[e].pc \in {"returned", "error"}
  /\ watch' = IF enq[e].pc = "error" THEN watch
              ELSE [watch EXCEPT ![scan[e].path] =
                      [hash |-> scan[e].hash, job |-> enq[e].job, ignored |-> "no"]]
  /\ scan' = [scan EXCEPT ![e] = NotScanning]
  /\ UNCHANGED <<queueVars, userVars, handler, archiveVars>>

(* A statement of the scan fails: the walk ends, its error is logged.      *)
ScanFails(e) ==
  /\ "lose" \in Faults
  /\ \/ scan[e].pc \in SkipReasons \cup {"enqueue"} /\ UNCHANGED queueVars
     \/ scan[e].pc = "enqueuing" /\ Queue!EnqueueFails(e)
  /\ scan' = [scan EXCEPT ![e] = NotScanning]
  /\ UNCHANGED <<userVars, watch, handler, archiveVars>>

-----------------------------------------------------------------------------
(* HandleJob *)

Claim(w) ==
  /\ Queue!Claim(w)
  /\ handler' = [handler EXCEPT ![w] = "store"]
  /\ UNCHANGED <<userVars, scan, watch, archiveVars>>

(* An error of any statement ends the attempt; WorkOne reports it. *)
Errs(w) ==
  /\ "transient" \in HandlerErrors
  /\ handler[w] \in {"store", "torn", "persist", "extract", "index", "process"}
  /\ handler' = [handler EXCEPT ![w] = "transient"]
  /\ UNCHANGED <<queueVars, userVars, scan, watch, archiveVars>>

(* What Blobs.StoreFile reads. *)
Copied(w) == IF handler[w] = "torn" THEN Torn ELSE folder[Payload(w)[1]]

(* Mutant of StoreFile: the stored hash is not compared with the payload's. *)
StoreFileUnchecked(w) ==
  /\ handler[w] \in {"store", "torn"}
  /\ objects' = objects \cup ({Copied(w)} \ {NoFile})
  /\ handler' = [handler EXCEPT ![w] = IF Copied(w) = NoFile THEN "transient" ELSE "persist"]
  /\ UNCHANGED <<queueVars, userVars, scan, watch, blobs, artifacts, texts>>

(* Blobs.StoreFile, then the comparison with the hash the scan saw.  The   *)
(* bytes read stay in the object store even when they are not the job's.   *)
StoreFile(w) ==
  /\ handler[w] \in {"store", "torn"}
  /\ LET c == Copied(w)
     IN  /\ objects' = IF c = NoFile THEN objects ELSE objects \cup {c}
         /\ handler' = [handler EXCEPT ![w] =
              IF c = NoFile THEN "transient"
              ELSE IF c # Payload(w)[2] THEN "permanent" ELSE "persist"]
  /\ UNCHANGED <<queueVars, userVars, scan, watch, blobs, artifacts, texts>>

(* persistArtifact: blob and artifact rows in one transaction. *)
PersistArtifact(w) ==
  /\ handler[w] = "persist"
  /\ blobs' = blobs \cup {Payload(w)[2]}
  /\ artifacts' = artifacts \cup {Payload(w)}
  /\ handler' = [handler EXCEPT ![w] = "extract"]
  /\ UNCHANGED <<queueVars, userVars, scan, watch, objects, texts>>

-----------------------------------------------------------------------------
(* Extractor.Extract reads the stored object, not the watched file: text   *)
(* directly, anything else by the program or the service of the provider.  *)

Extracting(w, types) ==
  /\ handler[w] = "extract"
  /\ type[Payload(w)[1]] \in types
  /\ UNCHANGED <<queueVars, userVars, scan, watch, archiveVars>>

(* Mutant of isPermanentExtractError: every error of an extractor is final. *)
isPermanentExtractErrorAny(err) == err \subseteq Phrases

(* An error is the set of phrases its text contains: it is judged by that  *)
(* text, whoever wrote it.                                                 *)
isPermanentExtractError(err) == err \cap Phrases # {}

ErrorOf(err) == IF isPermanentExtractError(err) THEN "permanent" ELSE "transient"

(* What follows an extraction with this outcome, if the object is there.   *)
Extracted(w, outcome) == handler' = [handler EXCEPT ![w] =
  IF Payload(w)[2] \in objects THEN outcome ELSE ErrorOf({})]

extractTextFile(w) ==
  /\ Extracting(w, {"text"})
  /\ Extracted(w, IF Payload(w)[2] \in Undecodable THEN ErrorOf({"not valid utf-8"}) ELSE "index")

(* A failed conversion: its error repeats what the tool printed on stderr, *)
(* or the answer of the service.                                           *)
ConversionFails(w) ==
  /\ "transient" \in HandlerErrors
  /\ \E said \in SUBSET Echoes[provider] : Extracted(w, ErrorOf(said))

(* LocalExtractor.run: pdftotext or tesseract. *)
RunTool(w) ==
  /\ provider = "local"
  /\ Extracting(w, {"pdf", "image"})
  /\ \/ Extracted(w, "index")
     \/ /\ "permanent" \in HandlerErrors
        /\ Extracted(w, ErrorOf({"not installed or not on path"}))
     \/ ConversionFails(w)

(* A PDF with little text is converted again with OCR. *)
shouldRetryWithForcedOCR(p) == type[p] = "pdf" /\ ~ForceOCR

(* The first conversion of DoclingExtractor.Extract. *)
Convert(w) ==
  /\ provider = "docling"
  /\ Extracting(w, {"pdf", "image"})
  /\ \/ Extracted(w, "index")
     \/ shouldRetryWithForcedOCR(Payload(w)[1]) /\ Extracted(w, "retry")
     \/ ConversionFails(w)

(* Mutant of RetryWithForcedOCR: the error of the retry is returned. *)
RetryOrErr(w) ==
  /\ handler[w] = "retry"
  /\ \E outcome \in {"index", ErrorOf({})} :
       handler' = [handler EXCEPT ![w] = outcome]
  /\ UNCHANGED <<queueVars, userVars, scan, watch, archiveVars>>

(* The text of the second conversion, or of the first if the second fails, *)
(* for which the first may have left no time: its error is only a warning. *)
RetryWithForcedOCR(w) ==
  /\ handler[w] = "retry"
  /\ handler' = [handler EXCEPT ![w] = "index"]
  /\ UNCHANGED <<queueVars, userVars, scan, watch, archiveVars>>

-----------------------------------------------------------------------------
(* persistExtraction: text, search document, document and chunks, one tx. *)
PersistExtraction(w) ==
  /\ handler[w] = "index"
  /\ texts' = texts \cup {Payload(w)}
  /\ handler' = [handler EXCEPT ![w] = "process"]
  /\ UNCHANGED <<queueVars, userVars, scan, watch, objects, blobs, artifacts>>

(* Pipeline.ProcessArtifact: its own module; here it ends well or errs. *)
ProcessArtifact(w) ==
  /\ handler[w] = "process"
  /\ handler' = [handler EXCEPT ![w] = "done"]
  /\ UNCHANGED <<queueVars, userVars, scan, watch, archiveVars>>

(* Mutant of Report: the error of HandleJob is dropped. *)
ReportSuccess(w) ==
  /\ handler[w] \in {"done", "transient", "permanent"} /\ Queue!Succeed(w)
  /\ handler' = [handler EXCEPT ![w] = NotHandling]
  /\ UNCHANGED <<userVars, scan, watch, archiveVars>>

(* WorkOne: Succeed or Fail, by what HandleJob returned. *)
Report(w) ==
  /\ \/ handler[w] = "done" /\ Queue!Succeed(w)
     \/ handler[w] = "transient" /\ Queue!Fail(w, FALSE)
     \/ handler[w] = "permanent" /\ Queue!Fail(w, TRUE)
  /\ handler' = [handler EXCEPT ![w] = NotHandling]
  /\ UNCHANGED <<userVars, scan, watch, archiveVars>>

(* The report itself fails (database busy or gone): the error is logged. *)
LoseReport(w) ==
  /\ handler[w] \in {"done", "transient", "permanent"}
  /\ Queue!LoseResult(w)
  /\ handler' = [handler EXCEPT ![w] = NotHandling]
  /\ UNCHANGED <<userVars, scan, watch, archiveVars>>

-----------------------------------------------------------------------------
Stop ==
  /\ Queue!Stop
  /\ scan' = [e \in Enqueuer |-> NotScanning]
  /\ handler' = [w \in Worker |-> NotHandling]
  /\ UNCHANGED <<userVars, watch, archiveVars>>

Clock ==
  /\ Queue!Start \/ Queue!Tick \/ \E w \in Worker : Queue!ClaimNothing(w)
  /\ UNCHANGED <<userVars, scan, watch, handler, archiveVars>>

Handle(w) == \/ StoreFile(w) \/ PersistArtifact(w)
             \/ extractTextFile(w) \/ RunTool(w) \/ Convert(w) \/ RetryWithForcedOCR(w)
             \/ PersistExtraction(w) \/ ProcessArtifact(w)

ScanStep(e) == ScanSkip(e) \/ ScanHash(e) \/ ScanEnqueue(e) \/ ScanEnqueuing(e)
                 \/ ScanRecord(e)

Next ==
  \/ \E p \in Path, c \in Content \cup {NoFile} : Edit(p, c)
  \/ \E p \in Path : Settle(p)
  \/ \E e \in Enqueuer, p \in Path : ScanFile(e, p)
  \/ \E e \in Enqueuer : ScanStep(e) \/ ScanFails(e)
  \/ \E w \in Worker : Claim(w) \/ Handle(w) \/ Errs(w) \/ Report(w) \/ LoseReport(w)
  \/ Stop
  \/ Clock

Spec == Init /\ [][Next]_vars

(***************************************************************************)
(* Files settle, the scan loop walks the folder again and again and every  *)
(* file is visited in each walk, workers poll and finish what they began,  *)
(* the clock runs and a stopped process is started again.                  *)
(***************************************************************************)
Fairness ==
  /\ WF_vars(Clock)
  /\ \A p \in Path : WF_vars(Settle(p))
  /\ \A e \in Enqueuer : /\ WF_vars(ScanStep(e))
                         /\ \A p \in Path : SF_vars(ScanFile(e, p))
  /\ \A w \in Worker : WF_vars(Claim(w)) /\ WF_vars(Handle(w)) /\ WF_vars(Report(w))

FairSpec == Spec /\ Fairness

-----------------------------------------------------------------------------
(* Properties *)

TypeOK ==
  /\ Queue!TypeOK
  /\ type \in [Path -> Types]
  /\ provider \in Providers
  /\ folder \in [Path -> Content \cup {NoFile}]
  /\ settled \in [Path -> BOOLEAN]
  /\ edits \in 0..MaxEdits
  /\ scan \in [Enqueuer ->
       [pc : {"idle", "settling", "unsupported", "read error", "hash", "enqueue", "enqueuing"},
        path : Path \cup {NoFile}, hash : Content \cup {NoFile}]]
  /\ watch \in [Path -> [hash : Content \cup {NoFile}, job : JobId \cup {NoJob},
       ignored : {"never seen", "settling", "unsupported", "read error", "no"}]]
  /\ handler \in [Worker -> {"idle", "store", "torn", "persist", "extract", "retry", "index",
                             "process", "done", "transient", "permanent"}]
  /\ objects \subseteq Content \cup {Torn}
  /\ blobs \subseteq Content
  /\ artifacts \subseteq Version
  /\ texts \subseteq Version

(***************************************************************************)
(* Raw bytes come first: whatever was extracted belongs to an artifact,    *)
(* every artifact has its blob row and every blob row its stored object,   *)
(* whatever the user did to the file in the meantime and wherever the      *)
(* process stopped.                                                        *)
(***************************************************************************)
RawBytesFirst ==
  /\ texts \subseteq artifacts
  /\ \A a \in artifacts : a[2] \in blobs
  /\ blobs \subseteq objects

(* A job that succeeded left its artifact complete.                        *)
SucceededMeansIngested ==
  \A id \in JobId : jobs[id].status = "succeeded" => jobs[id].key \in texts

(***************************************************************************)
(* Ingestion keeps the promise of Archive.  A version is open while a job  *)
(* of it waits, runs or was left running by a process that ended, finished *)
(* when its job succeeded, and unknown before it and after its death.      *)
(***************************************************************************)
JobOf(v, statuses) == \E id \in JobId : jobs[id].key = v /\ jobs[id].status \in statuses

StateOf(v) == IF JobOf(v, {"succeeded"}) THEN "finished"
              ELSE IF JobOf(v, {"queued", "running", "failed"}) THEN "open" ELSE "unknown"

Promise == INSTANCE Archive WITH
  state <- [v \in Version |-> StateOf(v)],
  originals <- objects, known <- artifacts, read <- texts

ImplementsArchive == Promise!Spec

(***************************************************************************)
(* No artifact is handled by two workers at once: the pipeline's writes,   *)
(* which are not in one transaction, rely on it.                           *)
(***************************************************************************)
OneWorkerPerArtifact ==
  \A v, w \in Worker : /\ v # w
                       /\ held[v].job # NoJob
                       /\ held[w].job # NoJob
                       => Payload(v) # Payload(w)

(* A watch row names a job of its own path and of the content it records.  *)
WatchRowMatchesJob ==
  \A p \in Path : watch[p].job # NoJob =>
    /\ watch[p].ignored = "no"
    /\ jobs[watch[p].job].key = <<p, watch[p].hash>>

(***************************************************************************)
(* A job dies before its last attempt only of text that is not UTF-8, of a *)
(* tool that is not installed, of a file that was written after the scan   *)
(* had hashed it, or of a failed conversion whose message happens to       *)
(* contain one of the Phrases: where messages never do, a conversion that  *)
(* fails, however often, is tried again.                                   *)
(***************************************************************************)
EarlyDeathHasCause ==
  \A id \in JobId : jobs[id].status = "dead" /\ jobs[id].attempts < jobs[id].max =>
    LET typeOf == type[jobs[id].key[1]]
    IN  \/ typeOf = "text" /\ jobs[id].key[2] \in Undecodable
        \/ typeOf # "text" /\ provider = "local" /\ "permanent" \in HandlerErrors
        \/ typeOf # "text" /\ Echoes[provider] # {} /\ "transient" \in HandlerErrors
        \/ edits > 0

(***************************************************************************)
(* A file that is left alone is ingested, once the process stays up, also  *)
(* when the second conversion of a PDF always fails:                       *)
(* docs/design/v0_implementation_guide.md, "processes any file it has not  *)
(* yet ingested".                                                          *)
(***************************************************************************)
Ingestible(p, c) == type[p] # "other" /\ (type[p] = "text" => c \notin Undecodable)

FilesLeftAloneAreIngested ==
  \A v \in Version :
    (<>[](up /\ Ingestible(v[1], v[2]) /\ folder[v[1]] = v[2])) => <>(v \in texts)

(***************************************************************************)
(* Every job that is enqueued succeeds or dies in the end, also when its   *)
(* file changes or disappears before a worker reads it.                    *)
(***************************************************************************)
EveryJobSettles == Queue!EveryJobSettles

=============================================================================
