----------------------------- MODULE FileTypes -----------------------------
(***************************************************************************)
(* What the server knows of an uploaded file: internal/validator, and the  *)
(* tables of the upload handlers.  A file is a record: magic, the type its *)
(* first bytes claim; sound, whether the structure behind them holds; ext, *)
(* base and suffix, its name; big, whether it exceeds the route's limit.   *)
(***************************************************************************)
EXTENDS Naturals, FiniteSets

Images == {"jpeg", "png", "webp", "heic", "bmp", "tiff"}
Videos == {"mp4", "mov", "mkv", "avi"}
FileType == Images \cup Videos \cup {"pdf", "mp3", "wav", "flac", "m4a"}

(* validateStructure looks behind the magic bytes of the short and the     *)
(* container signatures; the others are taken at their word.               *)
ValidateStructure(file) == file.magic \in {"pdf", "tiff", "flac", "mkv"} \/ file.sound

DetectFileType(file) ==
  IF file.magic \in FileType /\ ValidateStructure(file) THEN file.magic ELSE "unknown"

-----------------------------------------------------------------------------
ValidateForImageConversion == Images
ValidateForPDFCompression == {"pdf"}
ValidateForImageCompression == {"jpeg", "png"}
ValidateForMetadataRemoval == (Images \ {"bmp"}) \cup {"pdf"}
ValidateForPDFMerge == (Images \ {"heic"}) \cup {"pdf"}
ValidateForImageToPDF == Images \ {"heic"}
ValidateForOCR == Images \cup {"pdf"}
ValidateForAudioExtract == Videos
ValidateForAudioConvert == {"mp3", "wav", "flac", "m4a", "mp4"}
ValidateForVideoCompress == Videos
ValidateForMovToMp4 == {"mov"}
ValidateForPDFPassword == {"pdf"}
ValidateForPDFExtractImages == {"pdf"}

DetectFontFile == {"ttf", "otf", "woff", "woff2"}
DetectEbookFile ==
  {"epub", "mobi", "azw3", "azw", "pdf", "fb2", "txt", "docx", "html", "htm", "rtf", "odt",
   "lit", "pdb", "cbz", "cbr"}
DetectSvgFile == {"svg"}
DetectArchiveFile == {"zip", "rar", "7z", "tar.gz", "tgz", "tar.bz2", "tar.xz", "tar.zst"}
DetectMarkdownFile == {"md", "markdown"}

(* DetectCertFileType: a certificate request counts as PEM.                *)
DetectCertFileType(ext) ==
  CASE ext \in {"pem", "crt", "cer", "csr"} -> "pem"
    [] ext = "der" -> "der"
    [] ext \in {"p12", "pfx"} -> "p12"
    [] ext \in {"p7b", "p7c"} -> "p7b"
    [] OTHER -> "unknown"

GetExtension(type) == IF type = "jpeg" THEN "jpg" ELSE type
=============================================================================
