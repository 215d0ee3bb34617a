------------------------------ MODULE RowImage ------------------------------
(***************************************************************************)
(* How ebinlog takes the rows of a row event apart (BinlogTable.h,         *)
(* BinlogRow.h).  The event holds no offsets: the place of every column    *)
(* follows from the types and the metadata of the table map that came      *)
(* before it, so one column of which the parser consumes more or fewer     *)
(* bytes than the server wrote shifts all that follows.                    *)
(*                                                                         *)
(* A column is [type, a, b]: the server's type and its declared sizes.  A  *)
(* cell is NULL or a length, which matters to the types of variable        *)
(* length; of the bytes of the values only a decimal's are looked at.      *)
(***************************************************************************)
EXTENDS DecimalValue

CONSTANTS Tables,    \* sequences of columns
          RowsOf(_), \* rows of a table of so many columns: cells
          Null,
          MaxImages  \* bound: row images in an event, two for a row of an update

VARIABLES kind,      \* "write", "update" or "delete"
          table,     \* the columns, as the server knows them
          images,    \* the row images it wrote
          szType, szMeta,  \* the table map as the parser understands it
          nPos,      \* the parser's offset in the rows
          image, column, \* what it takes the bytes there for
          nulls      \* columns of this image it took for NULL

rowVars == <<kind, table, images, szType, szMeta, nPos, image, column, nulls>>

MaxColumn == Len(table)

-----------------------------------------------------------------------------
(* The server: what it writes for a column (field.cc, 5.1 and 5.5).        *)

Fixed == [LONG |-> 4, TINY |-> 1, SHORT |-> 2, LONGLONG |-> 8, INT24 |-> 3, TIMESTAMP |-> 4,
          DATETIME |-> 8, TIME |-> 3, DATE |-> 3, YEAR |-> 1, FLOAT |-> 4, DOUBLE |-> 8]

\* The types and the numbers that MYSQL_TYPE_STRING carries in its metadata.
Code == [STRING |-> 254, ENUM |-> 247, SET |-> 248]

\* The bytes of metadata of a column, and the type the table map names.  A
\* CHAR of more than 255 bytes hides two bits of its length in its own type.
MetaBytes(c) ==
    CASE c.type \in {"FLOAT", "DOUBLE"} -> <<Fixed[c.type]>>
      [] c.type \in {"BLOB", "GEOMETRY"} -> <<c.a>>
      [] c.type = "VARCHAR" -> <<c.a % 256, c.a \div 256>>
      [] c.type \in {"ENUM", "SET"} -> <<Code[c.type], c.a>>
      [] c.type = "STRING" -> <<Code.STRING - 16 * (c.a \div 256), c.a % 256>>
      [] c.type = "BIT" -> <<c.a % 8, c.a \div 8>>
      [] c.type = "NEWDECIMAL" -> <<c.a, c.b>>
      [] OTHER -> <<>>
WireType(c) == IF c.type \in {"ENUM", "SET"} THEN "STRING" ELSE c.type

\* The bytes of a value that is not NULL.
Written(c, len) ==
    CASE c.type \in DOMAIN Fixed -> Fixed[c.type]
      [] c.type \in {"VARCHAR", "STRING"} -> (IF c.a < 256 THEN 1 ELSE 2) + len
      [] c.type \in {"BLOB", "GEOMETRY"} -> c.a + len
      [] c.type \in {"ENUM", "SET"} -> c.a
      [] c.type = "BIT" -> (c.a + 7) \div 8
      [] c.type = "NEWDECIMAL" -> decimal_bin_size(c.a, c.b)

BitmapSize(n) == (n + 7) \div 8

Sum(s) == FoldLeft(LAMBDA x, y : x + y, 0, s)

\* The offset of column k of image i: the bitmap of the columns that are
\* present in the new image comes first in an update, one of the NULLs
\* before every image.
CellBytes(i, j) == IF images[i][j] = Null THEN 0 ELSE Written(table[j], images[i][j])
ImageBytes(i) == BitmapSize(MaxColumn) + Sum([j \in 1..MaxColumn |-> CellBytes(i, j)])
Start(i) == (IF kind = "update" THEN BitmapSize(MaxColumn) ELSE 0) + Sum([h \in 1..(i - 1) |-> ImageBytes(h)])
Offset(i, k) == Start(i) + BitmapSize(MaxColumn) + Sum([j \in 1..(k - 1) |-> CellBytes(i, j)])
nBufLen == Start(Len(images) + 1)

-----------------------------------------------------------------------------
(* The table map                                                           *)

\* Mutant of metaWidth: the type that names itself in its metadata has one byte.
metaWidthOne(t) == IF t \in {"BLOB", "DOUBLE", "FLOAT", "GEOMETRY", "STRING"} THEN 1
                   ELSE IF t \in {"BIT", "VARCHAR", "NEWDECIMAL"} THEN 2 ELSE 0

\* Bytes of metadata the parser takes for a type.
metaWidth(t) == IF t \in {"BLOB", "DOUBLE", "FLOAT", "GEOMETRY"} THEN 1
                ELSE IF t \in {"SET", "ENUM", "STRING", "BIT", "VARCHAR", "NEWDECIMAL"} THEN 2 ELSE 0

\* For BIT the shift applies to the sum.  A VARCHAR's size is read signed and
\* the sign extended to 32 bits (here by less, as TLC's numbers end at 2^31);
\* what is asked of it is whether it is less than 256.
metaValue(t, b) ==
    CASE t \in {"SET", "ENUM", "STRING", "NEWDECIMAL"} -> 256 * b[1] + b[2]
      [] t = "BIT" -> 256 * (b[1] + b[2])
      [] t = "VARCHAR" -> LET m == b[1] + 256 * b[2]
                          IN  IF m < 2^15 THEN m ELSE m + 2^16 * (2^14 - 1)
      [] metaWidth(t) = 1 -> b[1]
      [] OTHER -> 0

decodeMetaData ==
    LET types == [i \in 1..MaxColumn |-> WireType(table[i])]
        bytes == FlattenSeq([i \in 1..MaxColumn |-> MetaBytes(table[i])])
        j(i)  == Sum([h \in 1..(i - 1) |-> metaWidth(types[h])])
        at(i) == [k \in 1..2 |-> IF j(i) + k <= Len(bytes) THEN bytes[j(i) + k] ELSE 0]
    IN  [i \in 1..MaxColumn |-> metaValue(types[i], at(i))]

\* Of the STRING columns those whose metadata names ENUM or SET.
decodeDataType(meta) ==
    [i \in 1..MaxColumn |->
        CASE WireType(table[i]) = "STRING" /\ meta[i] \div 256 = Code.ENUM -> "ENUM"
          [] WireType(table[i]) = "STRING" /\ meta[i] \div 256 = Code.SET -> "SET"
          [] OTHER -> WireType(table[i])]

-----------------------------------------------------------------------------
(* The rows                                                                *)

\* MYSQL_TYPE_STRING: the length's upper bits are the inverse of bits 4 and 5.
stringLength(meta) ==
    LET bits == ((meta \div 256) \div 16) % 4
    IN  IF meta < 256 THEN meta ELSE (meta % 256) + 256 * (3 - bits)

\* The bytes the parser goes on by; len is what it reads in front of a value
\* of variable length.  A decimal is decoded, but the offset is not moved;
\* a type without a case is 0 in the row, and no bytes of it are skipped.
decodeRowImageItem(t, meta, len) ==
    CASE t \in DOMAIN Fixed -> Fixed[t]
      [] t = "ENUM" -> IF meta % 256 \in {1, 2} THEN meta % 256 ELSE 0
      [] t = "SET" -> meta % 256
      [] t = "BLOB" -> IF meta \in 1..4 THEN meta + len ELSE 0
      [] t = "VARCHAR" -> (IF meta < 256 THEN 1 ELSE 2) + len
      [] t = "STRING" -> (IF stringLength(meta) < 256 THEN 1 ELSE 2) + len
      [] t = "BIT" -> (8 * (meta \div 256) + (meta % 256) + 7) \div 8
      [] OTHER -> 0

Init ==
    /\ kind \in {"write", "update", "delete"}
    /\ table \in Tables
    /\ images \in UNION {[1..n -> RowsOf(MaxColumn)] : n \in 1..MaxImages}
    /\ kind = "update" => Len(images) % 2 = 0
    /\ szType = <<>> /\ szMeta = <<>>
    /\ nPos = 0 /\ image = 0 /\ column = 0 /\ nulls = {}

\* CMyTableMap::process
process ==
    /\ szType = <<>>
    /\ szMeta' = decodeMetaData
    /\ szType' = decodeDataType(decodeMetaData)
    /\ UNCHANGED <<kind, table, images, nPos, image, column, nulls>>

\* The bytes at nPos are those the server wrote for this column.
Aligned(i, k) == i <= Len(images) /\ nPos = Offset(i, k)

\* _decodeEvent up to its loop.
decodeEvent ==
    /\ szType # <<>> /\ image = 0
    /\ image' = 1 /\ column' = 0
    /\ nPos' = IF kind = "update" THEN BitmapSize(MaxColumn) ELSE 0
    /\ UNCHANGED <<kind, table, images, szType, szMeta, nulls>>

\* _decodeOneRow: the NULL bitmap.  An update takes two images for each test
\* of the offset against the length.
decodeOneRow ==
    /\ image > 0 /\ column = 0
    /\ nPos < nBufLen \/ (kind = "update" /\ image % 2 = 0)
    /\ column' = 1
    /\ nPos' = nPos + BitmapSize(MaxColumn)
    /\ nulls' = {j \in 1..MaxColumn : image <= Len(images) /\ images[image][j] = Null}
    /\ UNCHANGED <<kind, table, images, szType, szMeta, image>>

\* One column.  Out of line with what was written nothing is said of what the
\* parser makes of the bytes, and the model ends there.
decodeItem ==
    /\ column > 0 /\ Aligned(image, column)
    /\ nPos' = IF column \in nulls THEN nPos
               ELSE nPos + decodeRowImageItem(szType[column], szMeta[column], images[image][column])
    /\ IF column < MaxColumn
       THEN column' = column + 1 /\ UNCHANGED image
       ELSE column' = 0 /\ image' = image + 1
    /\ UNCHANGED <<kind, table, images, szType, szMeta, nulls>>

Next == process \/ decodeEvent \/ decodeOneRow \/ decodeItem

\* The columns of which the parser consumes another number of bytes than were
\* written: a decimal, a type it has no case for, and a BIT with two to seven
\* bits in its last byte.
Misread(c) == c.type \in {"NEWDECIMAL", "GEOMETRY"} \/ (c.type = "BIT" /\ c.a % 8 > 1)

(***************************************************************************)
(* Every column is read at the offset where it was written, and the event  *)
(* has as many rows as were written, unless a value before it was one of a *)
(* column that the parser misreads: whatever the table's other columns,    *)
(* their declared sizes, the NULLs and the kind of the event.  And a       *)
(* decimal that is read where it was written yields the digits of its      *)
(* value, in a text that is the value's only where TextExact says so       *)
(* (asked once, in the initial states).                                    *)
(***************************************************************************)
RowsExact ==
    /\ szType = <<>> => \A c \in Range(table) : c.type = "NEWDECIMAL" => DecimalExact(c.a, c.b)
    /\ LET before == {<<i, k>> \in (1..Len(images)) \X (1..MaxColumn) :
                        \/ i < image
                        \/ i = image /\ k < column}
       IN  (image > 0 /\ \A x \in before : images[x[1]][x[2]] = Null \/ ~Misread(table[x[2]])) =>
              IF column = 0
              THEN image <= Len(images) + 1 /\ nPos = Start(image)
              ELSE Aligned(image, column)

=============================================================================
