----------------------------- MODULE TransferMath -----------------------------
(***************************************************************************)
(* How a file is cut into parts and how many workers share them            *)
(* (media.py).  Sizes are in bytes.                                        *)
(***************************************************************************)
EXTENDS Integers

KB == 1024
MB == 1024 * KB

CeilDiv(a, b) == (a + b - 1) \div b

Smaller(a, b) == IF a < b THEN a ELSE b

MaxParts == 4000

(* The table alone: no limit on the number of parts.                        *)
TablePartSize(size) ==
  IF size < MB THEN 128 * KB ELSE IF size < 50 * MB THEN 256 * KB ELSE 512 * KB

(* _upload_part_size(): past 4000 parts the part grows, in steps of 512.    *)
UploadPartSize(size) ==
  IF CeilDiv(size, TablePartSize(size)) > MaxParts
    THEN CeilDiv(CeilDiv(size, MaxParts), 512) * 512
    ELSE TablePartSize(size)

UploadParts(size) == CeilDiv(size, UploadPartSize(size))

DownloadChunk(size) ==
  IF size < 50 * MB THEN 256 * KB ELSE IF size < 500 * MB THEN 512 * KB ELSE MB

(* The workers a size asks for, unless bypass_tcp_allotments asks for all.  *)
UploadWorkers(size, bypass, ceiling) ==
  LET table == IF size < 10 * MB THEN 1 ELSE IF size < 100 * MB THEN 2
               ELSE IF size < 500 * MB THEN 3 ELSE 4
  IN  IF bypass THEN ceiling ELSE Smaller(table, ceiling)

DownloadWorkers(size, bypass, ceiling) ==
  LET table == IF size < 10 * MB THEN 1 ELSE IF size < 50 * MB THEN 2
               ELSE IF size < 300 * MB THEN 3 ELSE 4
  IN  IF bypass THEN ceiling ELSE Smaller(table, ceiling)

(* The bytes of one part.                                                   *)
PartLen(size, part, p) == Smaller(part, size - p * part)
=============================================================================
