---------------------------- MODULE MCConversion ----------------------------
(* Every conversion type, with the files and options its code tells apart. *)
EXTENDS Conversion

File(magic, ext) ==
  [magic |-> magic, sound |-> TRUE, ext |-> ext, base |-> "a", suffix |-> <<>>, spare |-> 3,
   big |-> FALSE]

Bad == {[File("jpeg", "jpg") EXCEPT !.sound = FALSE], [File("pdf", "pdf") EXCEPT !.big = TRUE],
        File("mp3", "exe")}

Req(types, opts, files) ==
  [type : types, opt : opts, target : {""}, files : {<<f>> : f \in files}]

Jpg == File("jpeg", "jpg")
Png == File("png", "png")
Pdf == File("pdf", "pdf")
Mov == File("mov", "mov")

Plain ==
  Req({"image_format", "favicon", "pdf_compress", "ocr", "metadata_remove", "metadata_inspect",
       "audio_extract", "audio_convert", "video_compress", "video_to_gif", "mov_to_mp4",
       "pdf_edit", "pdf_repair", "pdf_extract_images"},
      {{}},
      {File(t, GetExtension(t)) : t \in {"jpeg", "webp", "tiff", "bmp", "pdf", "mov", "mp3"}} \cup Bad)

ByName ==
  Req({"font_convert", "ebook_convert", "svg_to_png", "decompress", "markdown_pdf"}, {{}},
      {File("unknown", ext) : ext \in {"ttf", "epub", "svg", "zip", "md"}})

Options ==
  Req({"image_format"},
      {{"crop", "rotate"}, {"watermark", "fit"}, {"exact"}, {"ico"}, {"pdf", "rotate"}}, {Jpg})
  \cup Req({"image_compress"},
           {{}, {"crop"}, {"resize"}, {"target"}, {"target", "already"}, {"crop", "target"},
            {"resize", "target", "already"}},
           {Jpg, Png, File("jpeg", "jpeg"), File("jpeg", "jfif"), File("png", "webp"),
            File("png", "none")})
  \cup Req({"pdf_compress"}, {{"target"}, {"target", "already"}}, {Pdf})
  \cup Req({"pdf_password"}, {{"protect"}, {"remove"}}, {Pdf})
  \cup Req({"video_compress"}, {{"target"}, {"target", "subsecond"}}, {Mov})

Certificates ==
  [type : {"cert_convert"}, opt : {{}}, target : {"pem", "der", "p12"},
   files : {<<File("unknown", ext)>> : ext \in {"csr", "der", "pfx", "p7b", "txt"}}]

(* Lists of files: one of them too many, one refused after others are on   *)
(* disk, and names that collide, also with a suffix given by the server,   *)
(* or that are so long that no suffix fits, or only one.                   *)
Named(suffix) == [Pdf EXCEPT !.suffix = suffix]

Long(spare) == [Pdf EXCEPT !.base = "long", !.spare = spare]

Lists ==
  [type : {"pdf_merge", "image_to_pdf"}, opt : {{}}, target : {""},
   files : {<<>>, <<Pdf>>, <<Jpg>>, <<Pdf, Pdf>>, <<Pdf, Jpg>>, <<Jpg, Png>>,
            <<Jpg, File("heic", "heic")>>, <<Pdf, Pdf, Pdf>>}]
  \cup [type : {"archive"}, opt : {{}}, target : {""},
        files : {<<Named(<<>>)>>, <<Named(<<>>), Named(<<>>)>>,
                 <<Named(<<>>), Named(<<>>), Named(<<1>>)>>,
                 <<Named(<<>>), Named(<<1>>), Named(<<>>)>>,
                 <<Named(<<>>), [Pdf EXCEPT !.big = TRUE]>>,
                 <<Long(0)>>, <<Long(0), Pdf, Long(0)>>, <<Long(1), Long(1)>>,
                 <<Long(1), Long(1), Long(1)>>,
                 <<Pdf, Pdf, Pdf, Pdf>>}]

MCRequest ==
  Plain \cup ByName \cup Options \cup Certificates \cup Lists
  \cup [type : {"qr_code", "pdf_repair"}, opt : {{}}, target : {""}, files : {<<>>}]

(* Archives of one entry of every kind, of two or three that may add up.   *)
Entries ==
  [path : {"safe", "unsafe", "blank"}, size : {-1, 0, 1, MaxInt64, MaxInt64 + 1},
   folder : {"no", "Folder", "Attributes"}]

Few ==
  {e \in Entries : /\ e.path = "unsafe" => e.size = 0 /\ e.folder = "Attributes"
                   /\ e.path = "blank" => e.size = MaxInt64 /\ e.folder = "no"
                   /\ e.folder # "no" => e.size = 0}

MCListing ==
  {<<>>} \cup {<<e>> : e \in Entries} \cup (Few \X Few) \cup {<<e, e, e>> : e \in Few}
=============================================================================
