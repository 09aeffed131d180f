----------------------------- MODULE Converters -----------------------------
(***************************************************************************)
(* The Convert methods of internal/converter, each as the sequence of      *)
(* steps it takes for a request q: commands in the sandbox, files the      *)
(* server writes itself, checks of options and content, and what it        *)
(* records as the output.  A choice the code makes on an option is made    *)
(* here on q.opt; a choice it makes on sizes or content is left open in    *)
(* the step.  Conversion says what each step does.                         *)
(*                                                                         *)
(* A name is <<directory, base, suffixes>>; Cur is the file that the job   *)
(* has as input at that moment, Upload(i) the i-th one it was sent.        *)
(***************************************************************************)
EXTENDS FileTypes, Sequences

CONSTANTS
  VipsSaves,      \* the suffixes of the files that vips can write
  VipsCompresses  \* those of them whose writer takes a compression level from 0 to 9

ASSUME VipsAssumption ==
  {"jpg", "png"} \subseteq VipsSaves /\ "png" \in VipsCompresses /\ VipsCompresses \subseteq VipsSaves

Out(file) == <<"output", file, <<>>>>
In(file) == <<"input", file, <<>>>>
Job(file) == <<"job", file, <<>>>>
Upload(i) == <<"upload", "sent", <<i>>>>
Cur == <<"upload", "current", <<>>>>

Step(op) ==
  [op |-> op, cfg |-> "", reads |-> {}, writes |-> {}, must |-> TRUE, skip |-> 0]

Check == <<Step("check")>>          \* the options or the content may be refused
Fail == <<Step("fail")>>            \* this request cannot be converted
Prepare == <<Step("prepare")>>      \* PrepareJobDir, or MkdirAll of the output directory
Host(name) == <<[Step("host") EXCEPT !.writes = {name}]>>
Tolerated(steps) == [i \in DOMAIN steps |-> [steps[i] EXCEPT !.must = FALSE]]
Run(cfg, reads, writes) ==
  <<[Step("run") EXCEPT !.cfg = cfg, !.reads = reads, !.writes = writes]>>
Probe(cfg) == <<[Step("probe") EXCEPT !.cfg = cfg, !.reads = {Cur}]>>
Use(name) == <<[Step("use") EXCEPT !.reads = {name}]>>
Into(cfg, name) == Run(cfg, {Cur}, {name}) \o Use(name)
Copy(name) == <<[Step("copy") EXCEPT !.reads = {Cur}, !.writes = {name}]>>
Unlink(name) == <<[Step("remove") EXCEPT !.writes = {name}]>>
Maybe(steps) == <<[Step("skip") EXCEPT !.skip = Len(steps)]>> \o steps

(* Ways to end: stat the output and record it; record a directory; record  *)
(* the smaller of output and input; record an earlier state of the output. *)
Keep(name) == <<[Step("keep") EXCEPT !.reads = {name}]>>
Manifest == <<Step("manifest")>>
KeepSmaller(name) == <<[Step("smaller") EXCEPT !.reads = {name, Cur}, !.writes = {name}]>>
KeepEarlier(name) == <<[Step("earlier") EXCEPT !.reads = {name}]>>

When(condition, steps) == IF condition THEN steps ELSE <<>>

-----------------------------------------------------------------------------
(* vipsheader, a second time field by field if its output did not parse.   *)
ReadSeparately == Probe("image.cfg") \o Probe("image.cfg")

ValidateImageDimensions == Probe("image.cfg") \o Maybe(ReadSeparately) \o Check

SetupMagickPolicy == Host(Job("policy.xml"))

ImageCrop(opt) == When("crop" \in opt, Check \o Into("image.cfg", Out("cropped")))

ImageRotation(opt) == When("rotate" \in opt, Check \o Into("image.cfg", Out("rotated.v")))

ImageWatermark(opt) ==
  When("watermark" \in opt,
       Check \o Tolerated(Probe("image_to_pdf.cfg")) \o Into("image_to_pdf.cfg", Out("watermarked")))

ViaIntermediate(target) ==
  Into("image.cfg", Out("intermediate")) \o Run("image_to_pdf.cfg", {Cur}, {target}) \o Keep(target)

ConvertWithResize(opt) ==
  (IF "exact" \in opt
   THEN ReadSeparately \o Check \o Into("image.cfg", Out("resized.v"))
   ELSE <<>>)
  \o Run("image.cfg", {Cur}, {Out("output")}) \o Keep(Out("output"))

ImageConvert(opt) ==
  Check \o Prepare \o SetupMagickPolicy \o ValidateImageDimensions
  \o ImageCrop(opt) \o ImageRotation(opt) \o ImageWatermark(opt)
  \o (IF "ico" \in opt \/ "pdf" \in opt THEN ViaIntermediate(Out("output"))
      ELSE IF opt \cap {"fit", "exact"} # {} THEN ConvertWithResize(opt)
      ELSE Run("image.cfg", {Cur}, {Out("output")}) \o Keep(Out("output")))

-----------------------------------------------------------------------------
(* The compressor gives its files the suffix of the name the client gave,  *)
(* by which vips chooses the writer, unless the command names one          *)
(* (jpegsave, pngsave); and all but the JPEG names get the compression     *)
(* level of a PNG.                                                         *)
IsJpeg(ext) == ext \in {"jpg", "jpeg"}

OutputExt(ext) == IF ext = "jpeg" THEN "jpg" ELSE ext

NeedsSuffix(suffixes, ext) == When(OutputExt(ext) \notin suffixes, Fail)

CompressorCrop(opt, ext) ==
  When("crop" \in opt,
       Check \o Prepare \o NeedsSuffix(VipsSaves, ext) \o Into("image.cfg", Out("cropped")))

ImageCompressWithQuality(opt, ext) ==
  Prepare \o ValidateImageDimensions
  \o (IF "resize" \in opt
      THEN When(~IsJpeg(ext), NeedsSuffix(VipsCompresses, ext))
           \o Run("image.cfg", {Cur}, {Out("output")}) \o Keep(Out("output"))
      ELSE Run("image.cfg", {Cur}, {Out("output")}) \o KeepSmaller(Out("output")))

Encode == Run("image.cfg", {Cur}, {Out("output")})

(* Up to four qualities, then the smallest one and up to three sizes; the  *)
(* size recorded is that of the best try, see TargetSize.                  *)
JpegTargetSize ==
  Encode \o Maybe(Encode) \o Maybe(Encode) \o Maybe(Encode \o Encode \o Maybe(Encode))
  \o KeepEarlier(Out("output"))

PngTargetSize(ext) ==
  NeedsSuffix(VipsCompresses, ext) \o Encode \o Maybe(Encode) \o Maybe(Encode) \o Keep(Out("output"))

ImageCompressToTargetSize(opt, ext) ==
  Prepare \o ValidateImageDimensions
  \o (IF "already" \in opt THEN Copy(Out("output")) \o Keep(Out("output"))
      ELSE IF IsJpeg(ext) THEN JpegTargetSize ELSE PngTargetSize(ext))

ImageCompress(opt, ext) ==
  CompressorCrop(opt, ext)
  \o (IF "target" \in opt THEN ImageCompressToTargetSize(opt, ext)
      ELSE ImageCompressWithQuality(opt, ext))

-----------------------------------------------------------------------------
MutantGhostscript == Run("gs.cfg", {Cur}, {Out("output.pdf")})

Ghostscript == Run("pdf.cfg", {Cur}, {Out("output.pdf")})

PDFCompressWithLevel == Prepare \o Ghostscript \o KeepSmaller(Out("output.pdf"))

(* Two to four attempts, each over the last, until one is small enough.    *)
PDFCompressToTargetSize(opt) ==
  Prepare
  \o (IF "already" \in opt THEN Copy(Out("output.pdf"))
      ELSE Ghostscript \o Maybe(Ghostscript) \o Maybe(Ghostscript) \o Maybe(Ghostscript))
  \o Keep(Out("output.pdf"))

PDFCompress(opt) ==
  IF "target" \in opt THEN PDFCompressToTargetSize(opt) ELSE PDFCompressWithLevel

(* The converted page is written beside the image.                         *)
ConvertedPage(i) == <<"input", "converted", <<i>>>>

ConvertImageToPDF(i) ==
  [Step("run") EXCEPT !.cfg = "image_to_pdf.cfg", !.reads = {Upload(i)}, !.writes = {ConvertedPage(i)}]

GetFileList(files, minFiles) == When(Len(files) < minFiles, Fail)

IsImage(file) == file.magic \in Images

(* The loop over the files, of which a PDF is taken as it is.              *)
ConvertPages(files) ==
  [i \in DOMAIN files |-> IF IsImage(files[i]) THEN ConvertImageToPDF(i) ELSE Step("skip")]

Page(files, i) == IF IsImage(files[i]) THEN ConvertedPage(i) ELSE Upload(i)

PDFMerge(files) ==
  GetFileList(files, 2) \o Prepare
  \o When(\E i \in DOMAIN files : IsImage(files[i]), SetupMagickPolicy)
  \o ConvertPages(files)
  \o Run("pdf.cfg", {Page(files, i) : i \in DOMAIN files}, {Out("output.pdf")})
  \o Keep(Out("output.pdf"))

ImageToPDF(files) ==
  GetFileList(files, 1) \o Prepare \o SetupMagickPolicy
  \o Run("image_to_pdf.cfg", {Upload(i) : i \in DOMAIN files}, {Out("output.pdf")})
  \o Keep(Out("output.pdf"))

-----------------------------------------------------------------------------
(* preprocess: vips may fail on the formats that tesseract reads itself;   *)
(* a tolerated command that fails takes the step after it along.           *)
MutantOCRPreprocess(type) ==
  CASE type \in {"jpeg", "png"} -> Tolerated(Into("image.cfg", Out("preprocessed.png")))
    [] type \in {"heic", "webp"} -> Into("image.cfg", Out("preprocessed.png"))
    [] type = "pdf" -> Into("pdf.cfg", Out("preprocessed.tiff"))
    [] OTHER -> Fail

OCRPreprocess(type) ==
  CASE type \in {"jpeg", "png", "bmp"} -> Tolerated(Into("image.cfg", Out("preprocessed.png")))
    [] type \in {"heic", "webp"} -> Into("image.cfg", Out("preprocessed.png"))
    [] type = "pdf" -> Into("pdf.cfg", Out("preprocessed.tiff"))
    [] OTHER -> Fail

OCR(type) ==
  Prepare \o When(type # "pdf", ValidateImageDimensions) \o OCRPreprocess(type)
  \o Run("ocr.cfg", {Cur}, {Out("output.txt")}) \o Keep(Out("output.txt"))

ExtractMetadata == Probe("metadata.cfg")

(* exiftool rewrites its own copy of the file.                             *)
MetadataRemove ==
  Prepare \o Tolerated(ExtractMetadata) \o Copy(Out("output"))
  \o Run("metadata.cfg", {Out("output")}, {Out("output")}) \o Keep(Out("output"))

MetadataInspect == Prepare \o ExtractMetadata \o Keep(Cur)

(* Two of the six thumbnail sizes stand for all of them.                   *)
Favicon ==
  Prepare \o ValidateImageDimensions \o Into("image.cfg", Out("intermediate.png"))
  \o Run("image.cfg", {Cur}, {Out("favicon-16.png")})
  \o Run("image.cfg", {Cur}, {Out("favicon-32.png")})
  \o Run("image_to_pdf.cfg", {Cur}, {Out("favicon.ico")})
  \o Unlink(Out("intermediate.png")) \o Manifest

-----------------------------------------------------------------------------
CanDirectConvert(from, to) == from # to /\ (from = "pem" \/ to = "pem")

PassFile(name) == Tolerated(Host(Out(name)))

OpenSSL(from, to, target) ==
  When(to = "p12", PassFile("passout")) \o When(from = "p12", PassFile("passin"))
  \o Run("cert.cfg", {Cur}, {target})

CertConvert(source, target) ==
  Check \o When(source = target, Fail) \o Prepare
  \o (IF CanDirectConvert(source, target) THEN OpenSSL(source, target, Out("output"))
      ELSE OpenSSL(source, "pem", Out("intermediate.pem")) \o Use(Out("intermediate.pem"))
           \o OpenSSL("pem", target, Out("output")))
  \o Keep(Out("output"))

-----------------------------------------------------------------------------
(* The converters of one command.                                          *)
OneCommand(cfg) == Run(cfg, {Cur}, {Out("output")}) \o Keep(Out("output"))

AudioExtract == Check \o Prepare \o Probe("ffmpeg.cfg") \o Check \o OneCommand("ffmpeg.cfg")
AudioConvert == Check \o Prepare \o OneCommand("ffmpeg.cfg")
MovToMp4 == Prepare \o OneCommand("ffmpeg.cfg")
PDFRepair == Prepare \o OneCommand("qpdf.cfg")
MarkdownPDF == Prepare \o OneCommand("pandoc.cfg")
EbookConvert == Check \o Prepare \o OneCommand("ebook.cfg")
SvgToPng == Check \o Prepare \o OneCommand("svg.cfg")
VideoToGif == Prepare \o Run("ffmpeg.cfg", {Cur}, {Out("output")}) \o Check \o Keep(Out("output"))
FontConvert == Check \o Prepare \o Host(Job("font_convert.py")) \o OneCommand("font.cfg")
ValidatePDFEditOptions == Check
PDFEdit ==
  ValidatePDFEditOptions \o Prepare \o Host(Job("editor.py")) \o Host(Job("config.json"))
  \o OneCommand("pymupdf.cfg")
PDFPassword(opt) ==
  Prepare \o Check \o When("remove" \in opt, Host(In(".password"))) \o OneCommand("qpdf.cfg")
QRCode == Check \o Prepare \o Host(Out("qrcode.png")) \o Keep(Out("qrcode.png"))
Archive(files) ==
  Check \o Prepare \o Run("archive.cfg", {Upload(i) : i \in DOMAIN files}, {Out("output")})
  \o Keep(Out("output"))

(* The bitrate is the target over the whole seconds of the duration.       *)
DivideByDuration(opt) == When("subsecond" \in opt, <<Step("panic")>>)

VideoCompressToTargetSize(opt) ==
  Check \o Probe("ffmpeg.cfg") \o Check \o DivideByDuration(opt)
  \o Run("ffmpeg.cfg", {Cur}, {Out("ffmpeg2pass")})
  \o Run("ffmpeg.cfg", {Cur, Out("ffmpeg2pass")}, {Out("output")})

VideoCompress(opt) ==
  Prepare
  \o (IF "target" \in opt THEN VideoCompressToTargetSize(opt)
      ELSE Run("ffmpeg.cfg", {Cur}, {Out("output")}))
  \o Keep(Out("output"))

PDFExtractImages ==
  Prepare \o Run("poppler.cfg", {Cur}, {Out("img-000"), Out("img-001")}) \o Check \o Manifest

(* 7z lists, then extracts; links are removed and the rest is counted.     *)
Decompress ==
  Prepare \o Probe("archive.cfg") \o <<Step("listing")>>
  \o Run("archive.cfg", {Cur}, {Out("file"), Out("link")})
  \o Unlink(Out("link")) \o Check \o Manifest
=============================================================================
