----------------------------- MODULE DltMessage -----------------------------
(***************************************************************************)
(* The payload of a log message: dlt_user_log_write_* (dlt_user.c) append  *)
(* arguments to the buffer of a message, dlt_message_payload and           *)
(* dlt_message_argument_print (dlt_common.c) read them back on the other   *)
(* side, which only has the bytes, the number of arguments (noar), the     *)
(* verbose flag and the byte order flag of the header.                     *)
(*                                                                         *)
(* The buffer is a sequence of bytes and the type info words have the      *)
(* values of dlt_protocol.h.  A number is the tuple of its bytes, most     *)
(* significant first; what is printed is a record with the digits read,    *)
(* not the text made of them.  The reader runs on a little endian host.    *)
(***************************************************************************)
EXTENDS Integers, Sequences, FiniteSets, SequencesExt

CONSTANTS
  TruncatedMessage,   \* STR_TRUNCATED_MESSAGE, a tuple of bytes
  NoarModulus,        \* noar is a byte: args_num % NoarModulus
  Logs                \* the shapes of the messages composed, see Init

VARIABLES
  shape,      \* [len, msbf, id, calls, quick, writes, mode, switches]
  mode,       \* dlt_user.verbose_mode
  log,        \* the DltContextData of the message, see NoLog
  accepted,   \* ghost: what the reader is to print, in order
  message     \* the message sent, or NoMessage

messageVars == <<shape, mode, log, accepted, message>>

NoLog == [open |-> FALSE, verbose |-> FALSE, buffer |-> <<>>, args_num |-> 0]
NoMessage == [sent |-> FALSE, undefined |-> FALSE]
Undefined == [sent |-> FALSE, undefined |-> TRUE]

-----------------------------------------------------------------------------
(* Type info words (dlt_protocol.h) and numbers in the sender's byte order. *)

BOOL == 16
SINT == 32
UINT == 64
FLOA == 128
STRG == 512
RAWD == 1024
VARI == 2048
FIXP == 4096
TRAI == 8192
SCOD_UTF8 == 32768
SCOD_HEX == 65536
SCOD_BIN == 98304

Has(info, flag) == (info \div flag) % 2 = 1
TYLE(info) == info % 16
SCOD(info) == ((info \div 32768) % 8) * 32768

\* DLT_TYLE_8BIT .. DLT_TYLE_128BIT and the bytes they stand for.
Width == [t \in 1 .. 5 |-> 2 ^ (t - 1)]
TyleOf(w) == CHOOSE t \in 1 .. 5 : Width[t] = w

Native(digits) == IF shape.msbf THEN digits ELSE Reverse(digits)
U16(n) == Native(<<n \div 256, n % 256>>)
U32(n) == Native(<<n \div 16777216, (n \div 65536) % 256, (n \div 256) % 256,
                   n % 256>>)

Number(digits) == FoldLeft(LAMBDA acc, d : acc * 256 + d, 0, digits)

-----------------------------------------------------------------------------
(* Writing.  An operator takes the log and returns the log; a log without   *)
(* room is returned unchanged (DLT_RETURN_USER_BUFFER_FULL).                *)

is_verbose_mode(l) == mode = 1 \/ l.verbose

\* A name or a unit: <<>> stands for NULL, else the bytes with the final 0.
WithNul(text) == IF text = <<>> THEN <<>> ELSE Append(text, 0)

Fits(l, bytes) == Len(l.buffer) + Len(bytes) <= shape.len
Wrote(l, bytes, n) ==
  [l EXCEPT !.buffer = l.buffer \o bytes, !.args_num = l.args_num + n]

\* Generic implementation of the simple types, with or without attributes: the
\* data alone is checked first, then everything.
dlt_user_log_write_generic_attr(l, data, info, attr, with_unit, name, unit) ==
  LET var   == U16(Len(WithNul(name)))
                 \o (IF with_unit THEN U16(Len(WithNul(unit))) ELSE <<>>)
                 \o WithNul(name) \o WithNul(unit)
      bytes == IF is_verbose_mode(l)
                 THEN U32(info + (IF attr THEN VARI ELSE 0))
                        \o (IF attr THEN var ELSE <<>>) \o Native(data)
                 ELSE Native(data)
  IN IF Fits(l, bytes) THEN Wrote(l, bytes, 1) ELSE l

dlt_user_log_write_generic_formatted(l, data, info, format) ==
  LET scod  == CASE format = "hex" -> SCOD_HEX [] format = "bin" -> SCOD_BIN
                 [] OTHER -> 0
      bytes == (IF is_verbose_mode(l) THEN U32(info + scod) ELSE <<>>)
                 \o Native(data)
  IN IF Fits(l, bytes) THEN Wrote(l, bytes, 1) ELSE l

dlt_user_log_write_float(l, c) ==
  dlt_user_log_write_generic_attr(l, c.data, FLOA + TyleOf(Len(c.data)), c.attr,
                                  TRUE, c.name, c.unit)

\* dlt_user_log_write_uint and uint8 .. uint64; the same with attributes; with
\* a format (dlt_user_log_write_ptr is the hexadecimal form).
dlt_user_log_write_uint(l, c) ==
  dlt_user_log_write_generic_attr(l, c.data, UINT + TyleOf(Len(c.data)), FALSE,
                                  FALSE, <<>>, <<>>)

dlt_user_log_write_uint_attr(l, c) ==
  dlt_user_log_write_generic_attr(l, c.data, UINT + TyleOf(Len(c.data)), TRUE,
                                  TRUE, c.name, c.unit)

dlt_user_log_write_uint_formatted(l, c) ==
  dlt_user_log_write_generic_formatted(l, c.data, UINT + TyleOf(Len(c.data)),
                                       c.format)

dlt_user_log_write_int(l, c) ==
  dlt_user_log_write_generic_attr(l, c.data, SINT + TyleOf(Len(c.data)), FALSE,
                                  FALSE, <<>>, <<>>)

dlt_user_log_write_int_attr(l, c) ==
  dlt_user_log_write_generic_attr(l, c.data, SINT + TyleOf(Len(c.data)), TRUE,
                                  TRUE, c.name, c.unit)

dlt_user_log_write_bool(l, c) ==
  dlt_user_log_write_generic_attr(l, c.data, BOOL + 1, c.attr, FALSE, c.name, <<>>)

\* Raw data: the length stands before the name, and a NULL pointer writes an
\* argument of length 0 that is not counted.
dlt_user_log_write_raw_internal(l, c) ==
  LET hint  == CASE c.format = "hex" -> SCOD_HEX + c.column
                 [] c.format = "bin" -> SCOD_BIN + c.column
                 [] OTHER -> 0
      name  == IF c.attr THEN U16(Len(WithNul(c.name))) \o WithNul(c.name)
               ELSE <<>>
      bytes == IF is_verbose_mode(l)
                 THEN U32(RAWD + (IF c.attr THEN VARI ELSE 0) + hint)
                        \o U16(Len(c.data)) \o name \o c.data
                 ELSE U16(Len(c.data)) \o c.data
  IN IF Fits(l, bytes)
       THEN Wrote(l, bytes, IF c.null THEN 0 ELSE 1) ELSE l

\* What may stand in memory in front of a text: the byte before it is that of a
\* character of one byte, or inside one, or the first of one of four bytes.
Fronts == {<<0, 0, b>> : b \in {0, 128, 240}}

\* Mutant of Utf8Reduce: characters of four bytes are forgotten.
Utf8ReduceThreeBytes(text, max, front) ==
  LET at(i) == IF max - 2 + i >= 1 THEN text[max - 2 + i] ELSE front[max + 1 + i]
  IN CASE at(2) < 128  -> 0
       [] at(2) >= 192 -> 1
       [] at(1) >= 224 -> 2
       [] OTHER        -> 0

\* How many bytes a UTF-8 text is shortened by so that no character is cut:
\* the last three bytes before the cut are looked at; with a cut before the third
\* byte these are bytes in front of the text.
Utf8Reduce(text, max, front) ==
  LET at(i)  == IF max - 2 + i >= 1 THEN text[max - 2 + i] ELSE front[max + 1 + i]
      lead3(b) == b >= 224        \* (b & 0xe0) == 0xe0
      lead4(b) == b >= 240        \* (b & 0xf0) == 0xf0
  IN CASE at(2) < 128  -> 0
       [] at(2) >= 192 -> 1
       [] lead3(at(1)) -> 2
       [] lead4(at(0)) -> 3
       [] OTHER        -> 0

\* Mutant of dlt_user_log_write_sized_string_utils_attr: the length written
\* is not lowered when the text is shortened to whole characters.
StringLengthUnadjusted(l, c, front) ==
  LET name  == IF c.attr /\ is_verbose_mode(l)
                 THEN U16(Len(WithNul(c.name))) \o WithNul(c.name) ELSE <<>>
      info  == IF is_verbose_mode(l)
                 THEN U32(STRG + (IF c.attr THEN VARI ELSE 0)
                               + (IF c.op = "utf8" THEN SCOD_UTF8 ELSE 0))
                 ELSE <<>>
      whole == info \o U16(Len(c.data) + 1) \o name \o Append(c.data, 0)
      mark  == Append(TruncatedMessage, 0)
      room  == shape.len - (Len(l.buffer) + Len(info) + 2 + Len(name) + Len(mark))
      max   == room - (IF c.op = "utf8" THEN Utf8Reduce(c.data, room, front) ELSE 0)
      part  == info \o U16(room + Len(mark)) \o name
                 \o SubSeq(c.data, 1, max) \o mark
  IN IF Fits(l, whole) THEN Wrote(l, whole, 1)
     ELSE IF room < 0 THEN l
     ELSE IF max < 0 THEN [l EXCEPT !.open = FALSE]
     ELSE Wrote(l, part, 1)

\* A text that does not fit is cut and STR_TRUNCATED_MESSAGE appended, unless
\* not even that fits.  A length below 0 wraps around: what the copy does is not
\* defined, and the log is not used any more here.
dlt_user_log_write_sized_string_utils_attr(l, c, front) ==
  LET name  == IF c.attr /\ is_verbose_mode(l)
                 THEN U16(Len(WithNul(c.name))) \o WithNul(c.name) ELSE <<>>
      info  == IF is_verbose_mode(l)
                 THEN U32(STRG + (IF c.attr THEN VARI ELSE 0)
                               + (IF c.op = "utf8" THEN SCOD_UTF8 ELSE 0))
                 ELSE <<>>
      whole == info \o U16(Len(c.data) + 1) \o name \o Append(c.data, 0)
      mark  == Append(TruncatedMessage, 0)
      room  == shape.len - (Len(l.buffer) + Len(info) + 2 + Len(name) + Len(mark))
      max   == room - (IF c.op = "utf8" THEN Utf8Reduce(c.data, room, front) ELSE 0)
      part  == info \o U16(max + Len(mark)) \o name
                 \o SubSeq(c.data, 1, max) \o mark
  IN IF Fits(l, whole) THEN Wrote(l, whole, 1)
     ELSE IF room < 0 THEN l
     ELSE IF max < 0 THEN [l EXCEPT !.open = FALSE]
     ELSE Wrote(l, part, 1)

\* The string functions; a constant string is only written in verbose mode.
dlt_user_log_write_string(l, c, front) ==
  IF c.constant /\ ~is_verbose_mode(l) THEN l
  ELSE dlt_user_log_write_sized_string_utils_attr(l, c, front)

Write(l, c, front) ==
  CASE c.op = "floa" -> dlt_user_log_write_float(l, c)
    [] c.op = "uint" /\ c.format # "dec" -> dlt_user_log_write_uint_formatted(l, c)
    [] c.op = "uint" /\ c.format = "dec" /\ ~c.attr -> dlt_user_log_write_uint(l, c)
    [] c.op = "uint" /\ c.format = "dec" /\ c.attr ->
         dlt_user_log_write_uint_attr(l, c)
    [] c.op = "sint" /\ ~c.attr -> dlt_user_log_write_int(l, c)
    [] c.op = "sint" /\ c.attr -> dlt_user_log_write_int_attr(l, c)
    [] c.op = "bool" -> dlt_user_log_write_bool(l, c)
    [] c.op = "rawd" -> dlt_user_log_write_raw_internal(l, c)
    [] c.op \in {"strg", "utf8"} -> dlt_user_log_write_string(l, c, front)

-----------------------------------------------------------------------------
(* Reading.  A reader is [rest, ok]: the bytes left, and FALSE once a read   *)
(* failed (datalength < 0).                                                 *)

Reader(bytes) == [rest |-> bytes, ok |-> TRUE]


DLT_MSG_READ_VALUE(r, n) ==
  IF r.ok /\ Len(r.rest) >= n
    THEN [r |-> [r EXCEPT !.rest = SubSeq(r.rest, n + 1, Len(r.rest))],
          bytes |-> SubSeq(r.rest, 1, n)]
    ELSE [r |-> [r EXCEPT !.ok = FALSE], bytes |-> <<>>]

\* DLT_ENDIAN_GET_*: the digits of bytes in the order the header announces.
DLT_ENDIAN_GET(m, bytes) == IF m.msbf THEN bytes ELSE Reverse(bytes)
\* Without conversion a little endian reader takes the last byte as the first.
HostOrder(bytes) == Reverse(bytes)

Length(m, v) == [r |-> v.r, n |-> IF v.r.ok THEN Number(DLT_ENDIAN_GET(m, v.bytes)) ELSE 0]
ReadLength(m, r) == Length(m, DLT_MSG_READ_VALUE(r, 2))

Failed(r) == [ok |-> FALSE, r |-> r]
Printed(r, arg) == IF r.ok THEN [ok |-> TRUE, r |-> r, arg |-> arg] ELSE Failed(r)

Arg(op, data, format, name, unit) ==
  [op |-> op, data |-> data, format |-> format, name |-> name, unit |-> unit]

\* The attributes before the value: both lengths come before both texts.
Attributes(name, unit) == [r |-> unit.r, name |-> name.bytes, unit |-> unit.bytes]
ReadUnit(name, n) == Attributes(name, DLT_MSG_READ_VALUE(name.r, n))
ReadTexts(n1, n2) == ReadUnit(DLT_MSG_READ_VALUE(n2.r, n1.n), n2.n)
ReadLengths(m, n1, with_unit) ==
  ReadTexts(n1, IF with_unit THEN ReadLength(m, n1.r) ELSE [r |-> n1.r, n |-> 0])
NoAttributes(r) == [r |-> r, name |-> <<>>, unit |-> <<>>]
ReadAttributes(m, r, info, with_unit) ==
  IF Has(info, VARI) THEN ReadLengths(m, ReadLength(m, r), with_unit) ELSE NoAttributes(r)

\* What a value v, read behind attributes at, is printed as: its bytes, or the digits
\* in the order the header announces.
Bytes(v, op, at) == Printed(v.r, Arg(op, v.bytes, "dec", at.name, at.unit))
Digits(m, v, op, at) == Printed(v.r, Arg(op, DLT_ENDIAN_GET(m, v.bytes), "dec", at.name, at.unit))

BytesBehind(at, n, op) == Bytes(DLT_MSG_READ_VALUE(at.r, n), op, at)

\* A value with its length in front; of a string and of trace info it is at least one
\* byte (DLT_MSG_READ_STRING).
PrintSized(m, len, info, op) == BytesBehind(ReadAttributes(m, len.r, info, FALSE), len.n, op)
NotEmpty(r, len, printed) == IF len.n = 0 THEN Failed(r) ELSE printed

PrintString(m, r, info) ==
  NotEmpty(r, ReadLength(m, r), PrintSized(m, ReadLength(m, r), info, "strg"))

PrintBool(m, r, info) == BytesBehind(ReadAttributes(m, r, info, FALSE), 1, "bool")

\* Binary and hexadecimal forms are printed without conversion, and a width
\* they do not know (bin: 32 and 64 bits) prints nothing and reads nothing.
Unconverted(v, format) == Printed(v.r, Arg("uint", HostOrder(v.bytes), format, <<>>, <<>>))
PrintFormatted(r, info, widths, format) ==
  IF TYLE(info) \in widths THEN Unconverted(DLT_MSG_READ_VALUE(r, Width[TYLE(info)]), format)
  ELSE Printed(r, Arg("uint", <<>>, format, <<>>, <<>>))

PrintBin(r, info) == PrintFormatted(r, info, {1, 2}, "bin")
PrintHex(r, info) == PrintFormatted(r, info, 1 .. 4, "hex")

\* A fixed point argument has a quantisation and an offset before the value.
SkipFixedPoint(r, info) ==
  IF Has(info, FIXP)
    THEN DLT_MSG_READ_VALUE(r, 4 + (IF TYLE(info) <= 3 THEN 4
                                    ELSE Width[TYLE(info)])).r
    ELSE r

IntegerBehind(m, at, info) ==
  Digits(m, DLT_MSG_READ_VALUE(SkipFixedPoint(at.r, info), Width[TYLE(info)]),
         IF Has(info, SINT) THEN "sint" ELSE "uint", at)
PrintInteger(m, r, info) ==
  IF TYLE(info) \notin 1 .. 5 THEN Failed(r)
  ELSE IntegerBehind(m, ReadAttributes(m, r, info, TRUE), info)

FloatBehind(m, at, info) == Digits(m, DLT_MSG_READ_VALUE(at.r, Width[TYLE(info)]), "floa", at)
PrintFloat(m, r, info) ==
  IF TYLE(info) \notin 1 .. 5 THEN Failed(r)
  ELSE FloatBehind(m, ReadAttributes(m, r, info, TRUE), info)

PrintRaw(m, r, info) == PrintSized(m, ReadLength(m, r), info, "rawd")

PrintTraceInfo(m, r) ==
  NotEmpty(r, ReadLength(m, r), BytesBehind(NoAttributes(ReadLength(m, r).r), ReadLength(m, r).n, "trai"))

\* The order of the tests matters: a word may have several flags.
dlt_message_argument_print(m, r, info) ==
  CASE Has(info, STRG) /\ SCOD(info) \in {0, SCOD_UTF8} -> PrintString(m, r, info)
    [] OTHER ->
  CASE Has(info, BOOL) -> PrintBool(m, r, info)
    [] OTHER ->
  CASE Has(info, UINT) /\ SCOD(info) = SCOD_BIN -> PrintBin(r, info)
    [] Has(info, UINT) /\ SCOD(info) = SCOD_HEX -> PrintHex(r, info)
    [] OTHER ->
  CASE Has(info, SINT) \/ Has(info, UINT) -> PrintInteger(m, r, info)
    [] OTHER ->
  CASE Has(info, FLOA) -> PrintFloat(m, r, info)
    [] OTHER ->
  CASE Has(info, RAWD) -> PrintRaw(m, r, info)
    [] OTHER ->
  IF Has(info, TRAI) THEN PrintTraceInfo(m, r) ELSE Failed(r)

\* The loop over the noar arguments: it stops at the first that fails, with
\* what was printed before it.
PrintNext(acc, a) ==
  IF ~a.ok THEN [acc EXCEPT !.ok = FALSE]
  ELSE [ok |-> TRUE, r |-> a.r, out |-> Append(acc.out, a.arg)]
PrintTyped(m, acc, t) ==
  IF ~t.r.ok THEN [acc EXCEPT !.ok = FALSE]
  ELSE PrintNext(acc, dlt_message_argument_print(m, t.r, Number(DLT_ENDIAN_GET(m, t.bytes))))
PrintArguments(m) ==
  LET step(acc, n) == IF acc.ok THEN PrintTyped(m, acc, DLT_MSG_READ_VALUE(acc.r, 4)) ELSE acc
  IN FoldLeft(step, [ok |-> TRUE, r |-> Reader(m.payload), out |-> <<>>],
              [n \in 1 .. m.noar |-> n])

\* dlt_message_payload: a non-verbose message is its id and bytes.
PrintId(m, id) ==
  [ok |-> id.r.ok, r |-> id.r, out |-> <<Number(DLT_ENDIAN_GET(m, id.bytes)), id.r.rest>>]
dlt_message_payload(m) ==
  IF m.verbose THEN PrintArguments(m) ELSE PrintId(m, DLT_MSG_READ_VALUE(Reader(m.payload), 4))

-----------------------------------------------------------------------------
(* Composing a message.                                                     *)

\* Init: the shape is the length of the buffer (log_buf_len), the byte order
\* of the sender, the message id (0: dlt_user_log_write_start, verbose), the
\* calls to choose from, their number, and whether another thread switches
\* dlt_user.verbose_mode meanwhile.
MessageInit ==
  /\ shape \in Logs
  /\ mode = shape.mode
  /\ log = NoLog
  /\ accepted = <<>>
  /\ message = NoMessage

\* A second start takes a new buffer (dlt_user_log_init forgets the old one);
\* without room for the id of a non-verbose message the caller gives up.
Started(id) == [open |-> TRUE, verbose |-> id = 0, buffer |-> <<>>, args_num |-> 0]

dlt_user_log_write_start ==
  LET l == Started(shape.id)
  IN /\ message = NoMessage
     /\ log' = IF is_verbose_mode(l) THEN l
               ELSE IF 4 <= shape.len THEN [l EXCEPT !.buffer = U32(shape.id)]
               ELSE NoLog
     /\ accepted' = <<>>
     /\ UNCHANGED <<shape, mode, message>>

\* What the reader is to print of a call that was written.
Expected(c, l, after) ==
  LET cut == Len(after.buffer) - Len(l.buffer) - (IF is_verbose_mode(l) THEN 4 ELSE 0)
               - 2 - (IF c.attr /\ is_verbose_mode(l)
                        THEN 2 + Len(WithNul(c.name)) ELSE 0)
      text == IF Fits(l, <<>>) /\ cut = Len(c.data) + 1 THEN Append(c.data, 0)
              ELSE SubSeq(c.data, 1, cut - 1 - Len(TruncatedMessage))
                     \o Append(TruncatedMessage, 0)
  IN CASE c.op \in {"strg", "utf8"} ->
            Arg("strg", text, "dec", IF c.attr THEN WithNul(c.name) ELSE <<>>, <<>>)
       [] c.op = "rawd" ->
            Arg("rawd", c.data, "dec", IF c.attr THEN WithNul(c.name) ELSE <<>>, <<>>)
       [] OTHER ->
            Arg(c.op, c.data, c.format, IF c.attr THEN WithNul(c.name) ELSE <<>>,
                IF c.attr THEN WithNul(c.unit) ELSE <<>>)

Noted(l, c, after) ==
  IF after = l THEN <<>> ELSE <<Expected(c, l, after)>>

dlt_user_log_write ==
  \E c \in shape.calls, front \in Fronts :
    LET after == Write(log, c, front)
    IN /\ log.open
       /\ Len(accepted) < shape.writes
       /\ log' = after
       /\ IF after.open
            THEN accepted' = accepted \o Noted(log, c, after) /\ UNCHANGED message
            ELSE message' = Undefined /\ UNCHANGED accepted
       /\ UNCHANGED <<shape, mode>>

\* The header is made when the message is sent, with the mode of that moment.
Sent(l) ==
  [sent |-> TRUE, undefined |-> FALSE, payload |-> l.buffer, msbf |-> shape.msbf,
   noar |-> l.args_num % NoarModulus, verbose |-> is_verbose_mode(l)]

dlt_user_log_write_finish ==
  /\ log.open
  /\ message' = Sent(log)
  /\ log' = NoLog
  /\ UNCHANGED <<shape, mode, accepted>>

\* dlt_log_string, dlt_log_int, dlt_log_uint, dlt_log_string_int,
\* dlt_log_string_uint and dlt_log_raw: a whole message in one call, only in
\* verbose mode.  Raw data that does not fit gives the message up.
dlt_log ==
  \E cs \in shape.quick :
    LET l0 == Started(0)
        l1 == Write(l0, cs[1], <<0, 0, 0>>)
        l2 == IF Len(cs) = 2 THEN Write(l1, cs[2], <<0, 0, 0>>) ELSE l1
    IN /\ mode = 1
       /\ ~log.open /\ message = NoMessage
       /\ cs[1].op = "rawd" => l1 # l0
       /\ message' = Sent(l2)
       /\ accepted' = Noted(l0, cs[1], l1)
                        \o (IF Len(cs) = 2 THEN Noted(l1, cs[2], l2) ELSE <<>>)
       /\ UNCHANGED <<shape, mode, log>>

\* dlt_verbose_mode and dlt_nonverbose_mode of another thread.
SwitchMode ==
  /\ shape.switches
  /\ message = NoMessage
  /\ mode' = 1 - mode
  /\ UNCHANGED <<shape, log, accepted, message>>

MessageNext ==
  \/ dlt_user_log_write_start
  \/ dlt_user_log_write
  \/ dlt_user_log_write_finish
  \/ dlt_log
  \/ SwitchMode

-----------------------------------------------------------------------------
(* Properties.                                                              *)

\* dlt_user_log_write_generic_formatted takes a binary form of any width; the reader
\* knows 8 and 16 bits, reads nothing of a wider one and takes its bytes for the next
\* argument.  What is printed in front of the first such number is still right.
Unprintable(arg) == arg.op = "uint" /\ arg.format = "bin" /\ Len(arg.data) > 2
FirstUnprintable == SelectInSeq(accepted, Unprintable)
Judged(out) ==
  IF FirstUnprintable = 0 \/ Len(out) < FirstUnprintable THEN out ELSE SubSeq(out, 1, FirstUnprintable - 1)

\* What was accepted is read back: the reader prints the arguments whose
\* calls succeeded, in order, cut texts included, and nothing else, whatever
\* the byte order of the sender, the attributes and the room left; of a
\* non-verbose message it prints the id.  Not so for formatted numbers of a
\* sender of the other byte order, for binary forms of 32 and 64 bits and what
\* follows them, and for raw data from a NULL pointer.
ReadBack(p) ==
  IF ~message.verbose THEN p.ok /\ p.out[1] = shape.id
  ELSE IF FirstUnprintable # 0 THEN Judged(p.out) = Judged(accepted)
  ELSE p.ok /\ p.out = accepted /\ p.r.rest = <<>>
RoundTrip == message.sent => ReadBack(dlt_message_payload(message))

\* A text that is cut because the buffer is full stays whole UTF-8: the bytes
\* kept end between two characters.
Boundary(b) == b < 128 \/ b >= 192
Utf8Whole ==
  \A i \in DOMAIN accepted :
    LET d == accepted[i].data
        k == Len(d) - Len(TruncatedMessage) - 1
    IN (accepted[i].op = "strg" /\ k >= 1 /\ Len(d) > Len(TruncatedMessage)
          /\ SubSeq(d, k + 1, Len(d) - 1) = TruncatedMessage)
       => \A c \in shape.calls :
            (c.op = "utf8" /\ Len(c.data) > k /\ SubSeq(c.data, 1, k) = SubSeq(d, 1, k))
              => Boundary(c.data[k + 1])

\* A payload that was cut in transit never yields arguments that were not
\* sent: what is printed (but behind a binary form of 32 or 64 bits) is a prefix
\* of what was accepted.
CutIsPrefix ==
  (message.sent /\ message.verbose) =>
    \A n \in 0 .. Len(message.payload) :
      IsPrefix(Judged(PrintArguments([message EXCEPT
                 !.payload = SubSeq(message.payload, 1, n)]).out), accepted)

=============================================================================
