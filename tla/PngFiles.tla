------------------------------- MODULE PngFiles --------------------------------
(* A picture on its way through a PNG file: written (packer-sync.js over the  *)
(* deflate of zlib.js), kept, and read (parser-sync.js over the inflate of    *)
(* zlib.js), both of the library bundled in static/lib/djvu/djvu.js. A file   *)
(* may come to its reader without its end, or with one byte changed; and      *)
(* there are files other programs wrote.                                      *)
EXTENDS PngReader

CONSTANTS
  Jobs,         \* what is written or read: [picture, file, ...], file = Nothing for a picture to write
  OutputChunk,  \* the bytes a call of inflate() gives when nobody asks for a size: 16384 in the code
  Harmed        \* the jobs whose file does not come whole

VARIABLES
  job,      \* what this is about
  stage,    \* "deflate", "stored", "parse", "inflate", "done"
  enc,      \* the stream that is written
  packed,   \* what it has given so far
  file,     \* the bytes that came to the reader
  parser,   \* the reader
  dec,      \* the stream that is read
  data,     \* what it has given so far
  picture   \* what was read
vars == <<job, stage, enc, packed, file, parser, dec, data, picture>>

ASSUME PngAssumption == OutputChunk \in Nat /\ OutputChunk >= 64 /\ Harmed \subseteq Jobs

IsWritten(j) == j.file = Nothing
\* The bytes to compress, and the stream that does it.
NewEnc(j) ==
  LET rows == FilterRows(BitPack(j.samples, j.width * j.height, j.opt), j.width, j.height, j.opt)
  IN Started(NewDeflate(rows, j.opt.level, j.opt.strategy), j.opt.chunk)

Init ==
  /\ job \in Jobs
  /\ stage = IF IsWritten(job) THEN "deflate" ELSE "stored"
  /\ enc = IF IsWritten(job) THEN NewEnc(job) ELSE Nothing
  /\ file = job.file
  /\ packed = <<>> /\ parser = Nothing /\ dec = Nothing /\ data = <<>> /\ picture = Nothing

-----------------------------------------------------------------------------
(* Writing.                                                                   *)

\* A symbol of the stream, or a block of them.
DeflateRound ==
  /\ stage = "deflate" /\ enc.bstate = "rounds"
  /\ enc' \in {Round(enc)}
  /\ UNCHANGED <<job, stage, packed, file, parser, dec, data, picture>>

\* The end of a call. While it has filled its room there is another one; the file is made of all
\* they gave, unless the last one had room and did not end.
DeflateReturn ==
  /\ stage = "deflate" /\ enc.bstate # "rounds"
  /\ \E end \in {Ended(enc)} :
       \E all \in {packed \o end.s.out} :
         IF AvailOut(end.s) = 0
         THEN /\ enc' \in {Started(end.s, job.opt.chunk)}
              /\ packed' = all
              /\ UNCHANGED <<stage, file, picture>>
         ELSE /\ enc' = Nothing /\ packed' = <<>>
              /\ stage' = IF end.ret = "stream end" THEN "stored" ELSE "done"
              /\ picture' = IF end.ret = "stream end" THEN Nothing ELSE Refused
              /\ file' = PngBytes(job.width, job.height, job.opt, all)
  /\ UNCHANGED <<job, parser, dec, data>>

-----------------------------------------------------------------------------
(* Reading.                                                                   *)

\* The file comes whole, or without its end, or with one bit of one byte changed.
Flip(byte, bit) == IF Bits(byte, 8)[bit] = 1 THEN byte - 2 ^ (bit - 1) ELSE byte + 2 ^ (bit - 1)
Damages(bytes)  == {SubSeq(bytes, 1, n) : n \in 0 .. Len(bytes) - 1}
                   \union {[bytes EXCEPT ![n] = Flip(bytes[n], bit)] : n \in DOMAIN bytes, bit \in {1, 6}}
Open ==
  /\ stage = "stored"
  /\ \E bytes \in {file} \union (IF job \in Harmed THEN Damages(file) ELSE {}) :
       /\ file' = bytes
       /\ parser' = NewParser(bytes)
  /\ stage' = "parse"
  /\ UNCHANGED <<job, enc, packed, dec, data, picture>>

Read ==
  /\ stage = "parse" /\ CanRead(parser)
  /\ parser' \in {ServeRead(parser)}
  /\ UNCHANGED <<job, stage, enc, packed, file, dec, data, picture>>

\* The room for a call: that of the whole picture, unless it is interlaced.
PictureSize(h) == (((h.width * BppOf[h.colorType] * h.depth + 7) \div 8) + 1) * h.height
Room(h) == IF h.interlace THEN OutputChunk ELSE IF PictureSize(h) < 64 THEN 64 ELSE PictureSize(h)

\* Nothing more can be read. That reads are left, or bytes, is told by nobody; without a header the
\* reader fails all the same.
ReadEnd ==
  /\ stage = "parse" /\ ~CanRead(parser)
  /\ IF parser.err \/ parser.header = Nothing
     THEN stage' = "done" /\ picture' = Refused /\ UNCHANGED dec
     ELSE stage' = "inflate" /\ dec' = CalledWith(NewInflate(parser.idat), Room(parser.header)) /\ UNCHANGED picture
  /\ UNCHANGED <<job, enc, packed, file, parser, data>>

Inflating ==
  /\ stage = "inflate" /\ ~dec.leave
  /\ dec' \in {InflateStep(dec)}
  /\ UNCHANGED <<job, stage, enc, packed, file, parser, data, picture>>

\* The end of a call. An error, or an end of the input before that of the stream, fails. Otherwise
\* there is another call while the room was filled and the picture needs more.
InflateReturn ==
  /\ stage = "inflate" /\ dec.leave
  /\ \E z \in {Returned(dec)} :
       \E all \in {data \o z.out} :
         LET h     == parser.header
             whole == ~h.interlace /\ Len(all) >= PictureSize(h)
             bytes == IF whole THEN SubSeq(all, 1, PictureSize(h)) ELSE all
             failed == z.ret \in {"data error", "need dict"} \/ (z.ret = "ok" /\ Left(z) > 0)
         IN IF ~failed /\ Left(z) = 0 /\ ~whole
            THEN /\ dec' = CalledWith(z, Room(h)) /\ data' = all
                 /\ UNCHANGED <<stage, parser, picture>>
            ELSE /\ picture' = IF failed THEN Refused ELSE Picture(parser, bytes)
                 /\ stage' = "done" /\ dec' = Nothing /\ data' = <<>> /\ parser' = Nothing
  /\ UNCHANGED <<job, enc, packed, file>>

Next == DeflateRound \/ DeflateReturn \/ Open \/ Read \/ ReadEnd \/ Inflating \/ InflateReturn
Spec == Init /\ [][Next]_vars

-----------------------------------------------------------------------------
(* What is claimed.                                                           *)

\* A file that comes whole gives its picture: the one that was written, however its rows were
\* filtered and its bytes compressed and in how many calls, or the one another program's file is of;
\* and a file that is of no picture is refused.
PictureComesBack == stage = "done" /\ job \notin Harmed => picture = job.picture

\* A file that lost its end or has one bit changed gives the picture all the same or is refused:
\* never another picture, and never a part of it. One thing is lost without a word: a transparency
\* whose chunk is taken for an unknown one, as the checksum of a chunk that is skipped is not read.
HasTRNS(bytes) == \E i \in 1 .. Len(bytes) - 3 : SubSeq(bytes, i, i + 3) = TRNS
TransparencySkipped == ~IsWritten(job) /\ HasTRNS(job.file) /\ ~HasTRNS(file)
CutIsRefusedOrWhole == stage = "done" => picture \in {job.picture, Refused} \/ TransparencySkipped
===============================================================================
