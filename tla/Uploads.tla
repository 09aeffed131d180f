------------------------------ MODULE Uploads ------------------------------
(***************************************************************************)
(* The upload handlers of internal/api/handlers/convert.go for one request *)
(* q = [type, opt, target, files]: what they check before they touch the   *)
(* disk, the job directory, the files they store one after the other, and  *)
(* Submit.  Everything after a stored byte that goes wrong must take the   *)
(* directory along.  In the list of an archive a file also has the name    *)
(* (base and suffix) that the client gave it, and spare: the first so many *)
(* suffixes _1, _2, ... still fit into a file name of 255 bytes.           *)
(***************************************************************************)
EXTENDS FileTypes, Sequences

CONSTANTS
  Request,          \* the requests that may arrive
  MaxMergeFiles, MaxArchiveFiles

ASSUME CountAssumption == MaxMergeFiles \in Nat \ {0} /\ MaxArchiveFiles \in Nat \ {0}

(* The types whose handlers read a list of files (MultipartForm.File); the *)
(* others read one file (FormFile) or none.                                *)
Several == {"pdf_merge", "image_to_pdf", "archive"}

ASSUME RequestAssumption ==
  \A r \in Request :
    /\ Len(r.files) \in Nat /\ DOMAIN r.files = 1..Len(r.files)
    /\ \A i \in DOMAIN r.files : r.files[i].suffix \in Seq(Nat) /\ r.files[i].spare \in Nat
    /\ r.type \notin Several => Len(r.files) <= 1

VARIABLES
  q,          \* the request
  stage,      \* where it is, up to the end of its conversion
  stored,     \* the names of the uploaded files on disk, in order
  jobDir,     \* the job directory exists
  disk,       \* the files in it: name -> content
  osFailed    \* history: MkdirAll or RemoveAll failed and may have left something

uploadVars == <<q, stage, stored, jobDir, disk, osFailed>>

(* searching: in the loop for a free name, which no fitting name will end. *)
Stage == {"form", "storing", "searching", "refused", "queued", "running", "done", "failed", "crashed"}

UploadInit ==
  /\ q \in Request
  /\ stage = "form"
  /\ stored = <<>>
  /\ jobDir = FALSE
  /\ disk = [name \in {} |-> 0]
  /\ osFailed = FALSE

-----------------------------------------------------------------------------
MaxFileCount(type) == IF type = "archive" THEN MaxArchiveFiles ELSE MaxMergeFiles

(* The types each handler passes to handleConversion and                   *)
(* handleMergeConversion; the other handlers go by the file's extension.   *)
ByContent(type) ==
  CASE type \in {"image_format", "favicon"} -> ValidateForImageConversion
    [] type = "pdf_compress" -> ValidateForPDFCompression
    [] type = "image_compress" -> ValidateForImageCompression
    [] type = "ocr" -> ValidateForOCR
    [] type \in {"metadata_remove", "metadata_inspect"} -> ValidateForMetadataRemoval
    [] type = "audio_extract" -> ValidateForAudioExtract
    [] type = "audio_convert" -> ValidateForAudioConvert
    [] type \in {"video_compress", "video_to_gif"} -> ValidateForVideoCompress
    [] type = "mov_to_mp4" -> ValidateForMovToMp4
    [] type \in {"pdf_password", "pdf_edit", "pdf_repair"} -> ValidateForPDFPassword
    [] type = "pdf_extract_images" -> ValidateForPDFExtractImages
    [] type = "pdf_merge" -> ValidateForPDFMerge
    [] type = "image_to_pdf" -> ValidateForImageToPDF
    [] OTHER -> {}

ByExtension(type) ==
  CASE type = "font_convert" -> DetectFontFile
    [] type = "ebook_convert" -> DetectEbookFile
    [] type = "svg_to_png" -> DetectSvgFile
    [] type = "decompress" -> DetectArchiveFile
    [] type = "markdown_pdf" -> DetectMarkdownFile
    [] OTHER -> {}

Accepts(type, file) ==
  /\ ~file.big
  /\ \/ type = "archive"
     \/ type = "cert_convert" /\ DetectCertFileType(file.ext) # "unknown"
     \/ DetectFileType(file) \in ByContent(type)
     \/ file.ext \in ByExtension(type)

(* What is checked before the directory is made: the count of a list; that *)
(* a file was sent, for all but the QR code, and the file itself.          *)
PassesForm ==
  IF q.type \in Several
  THEN Len(q.files) \in 1..MaxFileCount(q.type)
  ELSE /\ Len(q.files) = 0 => q.type = "qr_code"
       /\ \A i \in DOMAIN q.files : Accepts(q.type, q.files[i])

-----------------------------------------------------------------------------
(* A name is <<directory, base, suffixes>>: a_1.txt is <<.., "a", <<1>>>>. *)
ArchiveName(file) == <<"input", file.base, file.suffix>>

Suffixed(name, i) == <<name[1], name[2], Append(name[3], i)>>

MutantFreeSuffixes(file) ==
  {i \in 1..(file.spare - 1) : Suffixed(ArchiveName(file), i) \notin DOMAIN disk}

(* The suffixes with which Stat says that there is no such file; with one  *)
(* that does not fit it says that the name is too long, and the loop only  *)
(* ends on the former.                                                     *)
FreeSuffixes(file) == {i \in 1..file.spare : Suffixed(ArchiveName(file), i) \notin DOMAIN disk}

Taken(file) == ArchiveName(file) \in DOMAIN disk

MutantUniqueName(file) == ArchiveName(file)

(* The loop of handleArchiveConversion, where it finds a free name.        *)
UniqueName(file) ==
  IF Taken(file)
  THEN Suffixed(ArchiveName(file),
                CHOOSE i \in FreeSuffixes(file) : \A j \in FreeSuffixes(file) : i <= j)
  ELSE ArchiveName(file)

SearchEnds(file) == q.type = "archive" /\ Taken(file) => FreeSuffixes(file) # {}

NameFor(i) ==
  CASE q.type = "archive" -> UniqueName(q.files[i])
    [] q.type \in {"pdf_merge", "image_to_pdf"} -> <<"input", "page", <<i>>>>
    [] OTHER -> <<"input", "input", <<>>>>

Put(d, name, content) == [n \in DOMAIN d \cup {name} |-> IF n = name THEN content ELSE d[n]]

Drop(d, name) == [n \in DOMAIN d \ {name} |-> d[n]]

RefuseForm ==
  /\ stage' = "refused"
  /\ UNCHANGED <<q, stored, jobDir, disk, osFailed>>

MutantRefuseAndRemove(files) ==
  /\ stage' = "refused" /\ jobDir' = jobDir /\ disk' = [name \in {} |-> 0]
  /\ UNCHANGED <<q, stored, osFailed>>

(* os.RemoveAll(jobDir) and an error answer, when files are on disk.  The  *)
(* error of RemoveAll is ignored: it may leave any of them.                *)
RefuseAndRemove(files) ==
  /\ stage' = "refused"
  /\ \/ jobDir' = FALSE /\ disk' = [name \in {} |-> 0] /\ UNCHANGED osFailed
     \/ /\ osFailed' = TRUE /\ UNCHANGED jobDir
        /\ \E left \in SUBSET DOMAIN files : disk' = [name \in left |-> files[name]]
  /\ UNCHANGED <<q, stored>>

(* 400: the form, the options, the count, or the only file.  A form may be *)
(* unreadable whatever it holds.                                           *)
ReceiveForm ==
  /\ stage = "form"
  /\ RefuseForm

MakeJobDir ==
  /\ stage = "form" /\ PassesForm
  /\ \/ stage' = "storing" /\ jobDir' = TRUE /\ UNCHANGED osFailed
     \/ stage' = "refused" /\ jobDir' \in BOOLEAN /\ osFailed' = TRUE
  /\ UNCHANGED <<q, stored, disk>>

(* One file of the request: in a list each is checked when its turn comes. *)
(* It cannot be read or taken; its name is searched for; it is created and *)
(* written, or left half written.                                          *)
StoreFile ==
  /\ stage = "storing" /\ Len(stored) < Len(q.files)
  /\ LET i == Len(stored) + 1
         written == Put(disk, NameFor(i), 0)
     IN \/ RefuseAndRemove(disk)
        \/ Accepts(q.type, q.files[i]) /\ SearchEnds(q.files[i]) /\ RefuseAndRemove(written)
        \/ /\ Accepts(q.type, q.files[i]) /\ ~SearchEnds(q.files[i])
           /\ stage' = "searching"
           /\ UNCHANGED <<q, stored, jobDir, disk, osFailed>>
        \/ /\ Accepts(q.type, q.files[i]) /\ SearchEnds(q.files[i])
           /\ stored' = Append(stored, NameFor(i))
           /\ disk' = written
           /\ UNCHANGED <<q, stage, jobDir, osFailed>>

(* When the cleaner takes the directory of the unknown job, Stat finds no  *)
(* such file at last, and Create fails.                                    *)
SearchCutOff ==
  /\ stage = "searching"
  /\ RefuseAndRemove([name \in {} |-> 0])

(* Submit, which JobQueue models: 202, 503 or 500.                         *)
SubmitJob ==
  /\ stage = "storing" /\ Len(stored) = Len(q.files)
  /\ \/ RefuseAndRemove(disk)
     \/ stage' = "queued" /\ UNCHANGED <<q, stored, jobDir, disk, osFailed>>

UploadStep == ReceiveForm \/ MakeJobDir \/ StoreFile \/ SubmitJob

-----------------------------------------------------------------------------
(* An upload that is refused leaves nothing behind, however many of its    *)
(* files were on disk already, unless MkdirAll or RemoveAll itself failed: *)
(* the handlers ignore the error of RemoveAll, and the cleaner has the rest*)
(* (JobService).                                                           *)
RefusedLeavesNothing == stage = "refused" /\ ~osFailed => DOMAIN disk = {} /\ ~jobDir

(* The search for a free name (convert.go:1019) only fails to end for a    *)
(* name so long that fewer suffixes fit than files were stored before it.  *)
OnlyLongNamesSearch ==
  stage = "searching" => q.type = "archive" /\ q.files[Len(stored) + 1].spare < Len(stored)

(* A job that is queued has all of its files, each of a type and size the  *)
(* handler takes, in a file of its own: no two share a name.               *)
AcceptedIsComplete ==
  stage = "queued" =>
    /\ Cardinality(DOMAIN disk) = Len(q.files)
    /\ \A i \in DOMAIN q.files : Accepts(q.type, q.files[i]) /\ stored[i] \in DOMAIN disk
    /\ q.type \in Several => Len(q.files) \in 1..MaxFileCount(q.type)
=============================================================================
