------------------------------- MODULE Lwprintf -------------------------------
(***************************************************************************)
(* dcc/lwprintf.c as it is built here (lwprintf_opts.h: no floating point, *)
(* no engineering notation, no OS): the formatter behind PLAT_SNPRINTF,    *)
(* with which nor.c:75 writes a name into the 255 bytes of mem->name.      *)
(*                                                                         *)
(* A format is a sequence of items: a character, or a directive with what  *)
(* its flags, width, precision and length say and the argument it takes;   *)
(* a width or precision given by `*' is the number, with its sign.  A      *)
(* string or byte array is a sequence of its characters or bytes, and the  *)
(* null pointer is NullString.                                             *)
(***************************************************************************)
EXTENDS Integers, Sequences, Functions, SequencesExt

CONSTANTS Calls   \* the calls: [to, size, null, limit, format]

NUL == "NUL"
NullString == <<NUL>>

\* A cell behind the buffer, where nothing may be written, stands for all of them.
Cells(call) == 0 .. call.size
UNWRITTEN == "unwritten"

VARIABLES
  call,    \* the call being served
  fmt,     \* what is left of its format
  lwi,     \* lwprintf_int_t: buff, n_len, is_print_cancelled; sent is what out_fn took
  stored,  \* what %n wrote
  text     \* history: every character put out so far

vars == <<call, fmt, lwi, stored, text>>

-----------------------------------------------------------------------------
(* The output functions.                                                   *)

WriteBuffLate(l, c) ==   \* mutant: no byte is kept for the terminator
  LET room == call.size > 0 /\ l.n_len < call.size /\ ~call.null
  IN  [l EXCEPT
         !.buff = IF ~room THEN @
                  ELSE [k \in DOMAIN @ |-> IF k = l.n_len THEN c
                                           ELSE IF k = l.n_len + 1 /\ c # NUL THEN NUL
                                           ELSE @[k]],
         !.n_len = IF c # NUL THEN @ + 1 ELSE @]

\* prv_out_fn_write_buff.
WriteBuff(l, c) ==
  LET room == call.size > 0 /\ l.n_len < call.size - 1 /\ ~call.null
  IN  [l EXCEPT
         !.buff = IF ~room THEN @
                  ELSE [k \in DOMAIN @ |-> IF k = l.n_len THEN c
                                           ELSE IF k = l.n_len + 1 /\ c # NUL THEN NUL
                                           ELSE @[k]],
         !.n_len = IF c # NUL THEN @ + 1 ELSE @]

\* prv_out_fn_print: the caller's function takes `limit' characters and refuses the next.
PrintOut(l, c) ==
  IF l.is_print_cancelled THEN l
  ELSE LET refused == Len(l.sent) = call.limit
       IN  [l EXCEPT !.sent = IF refused THEN @ ELSE Append(@, c),
                     !.is_print_cancelled = refused,
                     !.n_len = IF c # NUL /\ ~refused THEN @ + 1 ELSE @]

OutFn(l, c) == IF call.to = "print" THEN PrintOut(l, c) ELSE WriteBuff(l, c)

\* One character after the other.
PutOut(chars) ==
  /\ lwi' = FoldLeft(OutFn, lwi, chars)
  /\ text' = text \o chars

-----------------------------------------------------------------------------
(* Formatting.                                                             *)

Digit == <<"0", "1", "2", "3", "4", "5", "6", "7", "8", "9", "a", "b", "c", "d", "e", "f">>
DigitUc == <<"0", "1", "2", "3", "4", "5", "6", "7", "8", "9", "A", "B", "C", "D", "E", "F">>

Repeat(c, n) == [k \in 1 .. n |-> c]

AtLeast0(n) == IF n < 0 THEN 0 ELSE n

\* The directives: what their letter says of base and case.
Base(type) ==
  CASE type \in {"d", "i", "u"} -> 10
    [] type \in {"x", "X", "p", "k", "K"} -> 16
    [] type = "o" -> 8
    [] type \in {"b", "B"} -> 2
    [] OTHER -> 0

Unsigned == {"u", "x", "X", "o", "b", "B"}

\* lwi->m once the directive is parsed and its case has touched the flags.
Settings(d) ==
  [left |-> "-" \in d.flags \/ d.width < 0,
   plus |-> "+" \in d.flags,
   space |-> " " \in d.flags /\ d.type \notin Unsigned \cup {"k", "K"},
   zero |-> "0" \in d.flags \/ d.type \in {"p", "k", "K"},
   alt |-> "#" \in d.flags,
   width |-> CASE d.type = "p" -> 8
               [] d.type \in {"k", "K"} -> 0
               [] OTHER -> IF d.width < 0 THEN -d.width ELSE d.width,
   uc |-> d.type \in {"X", "B", "K"},
   base |-> Base(d.type),
   negative |-> d.type \in {"d", "i"} /\ d.arg < 0,
   is_num_zero |-> d.type \in {"d", "i", "p"} \cup Unsigned /\ d.arg = 0]

\* The digits of a number, most significant first.
Digits(m, num) ==
  LET chr == IF m.uc THEN DigitUc ELSE Digit
      of[n \in Nat] ==
        IF n < m.base THEN <<chr[n + 1]>>
        ELSE LET high == of[n \div m.base] IN Append(high, chr[(n % m.base) + 1])
  IN  of[num]

Sign(m) == IF m.negative THEN <<"-">> ELSE IF m.plus THEN <<"+">> ELSE <<>>

Prefix(m) ==
  IF ~m.alt \/ m.is_num_zero THEN <<>>
  ELSE CASE m.base = 8  -> <<"0">>
         [] m.base = 16 -> <<"0", IF m.uc THEN "X" ELSE "x">>
         [] m.base = 2  -> <<"0", IF m.uc THEN "B" ELSE "b">>
         [] OTHER       -> <<>>

NarrowedUnsigned(m) ==   \* mutant: the sign does not count
  AtLeast0(m.width - Len(Prefix(m)))

\* What the width has left for the value: prv_out_str_before takes sign and prefix off.
Narrowed(m) == AtLeast0(AtLeast0(m.width - Len(Sign(m))) - Len(Prefix(m)))
\* prv_out_str_before, around a value of `size' characters.
Before(m, size) ==
  LET w    == Narrowed(m)
      fill == IF m.left THEN 0 ELSE AtLeast0(w - size)
      signed == Sign(m) # <<>>
  IN  (IF m.zero THEN IF signed THEN Sign(m) ELSE IF m.space THEN <<" ">> ELSE <<>> ELSE <<>>)
        \o Prefix(m) \o Repeat(IF m.zero THEN "0" ELSE " ", fill)
        \o (IF m.zero THEN <<>>
            ELSE IF signed THEN Sign(m) ELSE IF m.space /\ size >= w THEN <<" ">> ELSE <<>>)

\* prv_out_str_after.
After(m, size) == IF m.left THEN Repeat(" ", AtLeast0(Narrowed(m) - size)) ELSE <<>>

\* prv_out_str, and prv_longest_unsigned_int_to_str with the digits of a number.
Padded(m, chars) == Before(m, Len(chars)) \o chars \o After(m, Len(chars))

Magnitude(n) == IF n < 0 THEN -n ELSE n

\* prv_strnlen: a string ends at its precision.  A precision below 0 is 0.
Limited(d, chars) ==
  IF d.precise THEN SubSeq(chars, 1, IF d.precision < Len(chars) THEN AtLeast0(d.precision)
                                     ELSE Len(chars))
  ELSE chars

Null == <<"(", "n", "u", "l", "l", ")">>

\* The bytes of %k, with a space between two if the flag asks for it.
ByteText(m, d, bytes) ==
  LET chr == IF m.uc THEN DigitUc ELSE Digit
      two(b) == <<chr[(b \div 16) + 1], chr[(b % 16) + 1]>>
  IN  FlattenSeq([k \in 1 .. Len(bytes) |->
                    two(bytes[k]) \o (IF " " \in d.flags /\ k < Len(bytes) THEN <<" ">> ELSE <<>>)])

\* What a directive puts out: the cases of prv_format.
Formatted(d) ==
  LET m == Settings(d)
  IN  CASE d.type \in {"d", "i", "p"} \cup Unsigned -> Padded(m, Digits(m, Magnitude(d.arg)))
        [] d.type = "s" -> Padded(m, Limited(d, IF d.arg = NullString THEN Null ELSE d.arg))
        [] d.type = "c" -> <<d.arg>>
        [] d.type \in {"k", "K"} ->
             LET bytes == IF d.arg = NullString THEN <<>> ELSE SubSeq(d.arg, 1, Magnitude(d.width))
             IN  IF bytes = <<>> THEN <<>> ELSE Before(m, 0) \o ByteText(m, d, bytes) \o After(m, 0)
        [] d.type \in {"a", "A"} -> <<"N", "a", "N">>
        [] d.type = "n" -> <<>>
        [] OTHER -> <<d.type>>      \* %%, and a letter that means nothing

-----------------------------------------------------------------------------
(* The steps of prv_format.                                                *)

\* lwprintf_vsnprintf_ex and lwprintf_vprintf_ex set up, and prv_format begins.
Init ==
  /\ call \in Calls
  /\ fmt = call.format
  /\ lwi = [buff |-> [k \in Cells(call) |->
                        IF k = 0 /\ call.size > 0 /\ ~call.null THEN NUL ELSE UNWRITTEN],
            n_len |-> 0, is_print_cancelled |-> FALSE, sent |-> <<>>]
  /\ stored = -1
  /\ text = <<>>

Running == fmt # <<>> /\ Head(fmt).type # "end"

\* A character that is not '%'.
Literal ==
  /\ Running /\ ~lwi.is_print_cancelled
  /\ Head(fmt).type = "literal"
  /\ PutOut(<<Head(fmt).arg>>)
  /\ fmt' = Tail(fmt)
  /\ UNCHANGED <<call, stored>>

Directive ==
  /\ Running /\ ~lwi.is_print_cancelled
  /\ Head(fmt).type # "literal"
  /\ LET d == Head(fmt)
     IN  /\ PutOut(Formatted(d))
         /\ stored' = IF d.type = "n" THEN lwi.n_len ELSE stored
  /\ fmt' = Tail(fmt)
  /\ UNCHANGED call

\* The end of the format, or a function that takes no more: a last zero.
Terminate ==
  /\ fmt = <<>> \/ (Running /\ lwi.is_print_cancelled)
  /\ lwi' = OutFn(lwi, NUL)
  /\ fmt' = <<[type |-> "end"]>>
  /\ UNCHANGED <<call, stored, text>>

Finished == fmt # <<>> /\ ~Running /\ UNCHANGED vars

Next == Literal \/ Directive \/ Terminate \/ Finished

Spec == Init /\ [][Next]_vars

-----------------------------------------------------------------------------
(* Properties.                                                             *)

Full == SelectSeq(text, LAMBDA c : c # NUL)

Prefixed(s, n) == SubSeq(s, 1, IF n < Len(s) THEN n ELSE Len(s))

\* Whatever the format, a buffer holds as much of the text as fits in front of a
\* terminator, nothing is written behind it or through a null pointer, and n_len, which
\* the caller gets back, counts the whole text (lwprintf.c:1109-1115).
StaysInBuffer ==
  call.to = "buffer" =>
    /\ lwi.n_len = Len(Full)
    /\ LET kept == IF call.size = 0 \/ call.null THEN <<>> ELSE Prefixed(Full, call.size - 1)
       IN  \A k \in Cells(call) :
             /\ k < Len(kept) => lwi.buff[k] = kept[k + 1]
             /\ k = Len(kept) /\ call.size > 0 /\ ~call.null => lwi.buff[k] = NUL
             /\ k > Len(kept) \/ call.size = 0 \/ call.null => lwi.buff[k] = UNWRITTEN

\* An output function that refuses a character is not called again, and n_len counts
\* what it took (prv_out_fn_print).
StopsWhenRefused ==
  call.to = "print" =>
    /\ Len(lwi.sent) <= call.limit
    /\ lwi.n_len = Len(SelectSeq(lwi.sent, LAMBDA c : c # NUL))
    /\ \E n \in 0 .. Len(text) : \/ lwi.sent = SubSeq(text, 1, n)
                                 \/ lwi.sent = Append(SubSeq(text, 1, n), NUL)

\* What printf of the C standard puts out for a directive.
Standard(d) ==
  LET left  == "-" \in d.flags \/ d.width < 0
      width == Magnitude(d.width)
      m     == Settings(d)
      body  == IF d.type = "s" THEN Limited(d, d.arg) ELSE Digits(m, Magnitude(d.arg))
      sign  == IF d.type = "s" \/ d.type \in Unsigned THEN <<>>
               ELSE IF d.arg < 0 THEN <<"-">> ELSE IF "+" \in d.flags THEN <<"+">>
               ELSE IF " " \in d.flags THEN <<" ">> ELSE <<>>
      lead  == sign \o (IF "#" \notin d.flags \/ d.type \notin {"x", "X", "o"} \/ d.arg = 0
                        THEN <<>> ELSE IF d.type = "o" THEN <<"0">> ELSE <<"0", d.type>>)
      pad   == AtLeast0(width - Len(lead) - Len(body))
  IN  IF left THEN lead \o body \o Repeat(" ", pad)
      ELSE IF "0" \in d.flags /\ d.type # "s" THEN lead \o Repeat("0", pad) \o body
      ELSE Repeat(" ", pad) \o lead \o body

\* Where the code goes its own way: a space for the sign of a left-aligned or zero-filled
\* number, a prefix in front of blanks, a sign for an unsigned number or a string, a
\* precision for a number, and the letters it has for itself.
OwnWay(d) ==
  \/ d.type \notin {"d", "i", "u", "x", "X", "o", "s"}
  \/ d.type \in {"u", "x", "X", "o", "s"} /\ "+" \in d.flags
  \/ d.type \in {"d", "i", "s"} /\ " " \in d.flags /\ (d.width < 0 \/ {"-", "0"} \cap d.flags # {})
  \/ d.type = "s" /\ ({"0", "#", " "} \cap d.flags # {} \/ d.arg = NullString)
  \/ "#" \in d.flags /\ {"-", "0"} \cap d.flags = {} /\ d.width > 0
  \/ d.precise /\ (d.type # "s" \/ d.precision < 0)

Served == Len(call.format) - (IF Running THEN Len(fmt) ELSE 0)

\* Everywhere else it puts out what the standard says, for every flag, width and
\* argument (the format "follows the same specifications as format in printf",
\* lwprintf.c:1118).
FollowsPrintf ==
  LET done == SubSeq(call.format, 1, Served)
  IN  ~lwi.is_print_cancelled /\ (\A k \in DOMAIN done : done[k].type = "literal" \/ ~OwnWay(done[k]))
        => text = FlattenSeq([k \in DOMAIN done |->
                     IF done[k].type = "literal" THEN <<done[k].arg>> ELSE Standard(done[k])])
=============================================================================
