------------------------------ MODULE Kstring -------------------------------
(* Strings and memory (lib/string.c), the decimal numbers of atoi()         *)
(* (lib/stdlib.c), tar headers (lib/ustar.c) and the words of the kernel's   *)
(* command line (threads/init.c), each with what it must compute.            *)
(*                                                                           *)
(* A string is the sequence of its characters without the null byte that     *)
(* ends it; a pointer into it is a position, and a null pointer is 0.        *)
EXTENDS Integers, Sequences, FiniteSets

CONSTANTS Chars,       \* characters, the codes of "/", "." and a letter
          MaxString,
          INT_BITS,    \* bits of an int
          OctalDigits  \* digits of the size field of a header

NUL == 0
Slash == 1
Dot == 2
Strings == UNION {[1 .. n -> Chars] : n \in 0 .. MaxString}
Short == {s \in Strings : Len(s) <= 2}
At(s, i) == IF i > Len(s) THEN NUL ELSE s[i]
Drop(s, n) == SubSeq(s, n + 1, Len(s))
-----------------------------------------------------------------------------
(* Memory: mem is an array of bytes, addresses are its indices *)

RECURSIVE memcpy(_, _, _, _)
memcpy(mem, dst, src, size) ==
    IF size = 0 THEN mem ELSE memcpy([mem EXCEPT ![dst] = mem[src]], dst + 1, src + 1, size - 1)
RECURSIVE CopyDown(_, _, _, _)
CopyDown(mem, dst, src, size) ==
    IF size = 0 THEN mem ELSE CopyDown([mem EXCEPT ![dst + size - 1] = mem[src + size - 1]], dst, src, size - 1)
\* memmove(): the memory and the pointer it returns, which the upward copy moves
\* MUTANT: memmove() always copies upwards
memmove_up(mem, dst, src, size) == [mem |-> memcpy(mem, dst, src, size), ret |-> dst + size]
memmove(mem, dst, src, size) ==
    IF dst < src THEN [mem |-> memcpy(mem, dst, src, size), ret |-> dst + size]
    ELSE [mem |-> CopyDown(mem, dst, src, size), ret |-> dst]
RECURSIVE memset(_, _, _, _)
memset(mem, dst, value, size) == IF size = 0 THEN mem ELSE memset([mem EXCEPT ![dst] = value], dst + 1, value, size - 1)
RECURSIVE memcmp(_, _, _)
memcmp(a, c, size) ==
    CASE size = 0 -> 0
      [] size > 0 /\ At(a, 1) # At(c, 1) -> IF At(a, 1) > At(c, 1) THEN 1 ELSE 0 - 1
      [] OTHER -> memcmp(Drop(a, 1), Drop(c, 1), size - 1)
RECURSIVE memchr(_, _, _, _)
memchr(s, ch, i, size) ==
    IF i > size THEN 0 ELSE IF At(s, i) = ch THEN i ELSE memchr(s, ch, i + 1, size)
-----------------------------------------------------------------------------
(* Strings *)

RECURSIVE strcmp(_, _, _)
strcmp(a, c, i) ==
    IF At(a, i) # NUL /\ At(a, i) = At(c, i) THEN strcmp(a, c, i + 1)
    ELSE CASE At(a, i) < At(c, i) -> 0 - 1 [] At(a, i) > At(c, i) -> 1 [] OTHER -> 0
RECURSIVE strchr(_, _, _)
strchr(s, c, i) ==
    IF At(s, i) = c THEN i ELSE IF At(s, i) = NUL THEN 0 ELSE strchr(s, c, i + 1)
In(c, set) == strchr(set, c, 1) # 0
RECURSIVE strcspn(_, _, _)
strcspn(s, stop, n) == IF At(s, n + 1) = NUL \/ In(At(s, n + 1), stop) THEN n ELSE strcspn(s, stop, n + 1)
RECURSIVE strspn(_, _, _)
strspn(s, skip, n) == IF At(s, n + 1) = NUL \/ ~In(At(s, n + 1), skip) THEN n ELSE strspn(s, skip, n + 1)
RECURSIVE strpbrk(_, _, _)
strpbrk(s, stop, i) ==
    IF At(s, i) = NUL THEN 0 ELSE IF In(At(s, i), stop) THEN i ELSE strpbrk(s, stop, i + 1)
RECURSIVE strrchr(_, _, _, _)
strrchr(s, c, i, p) == IF At(s, i) = NUL THEN p ELSE strrchr(s, c, i + 1, IF At(s, i) = c THEN i ELSE p)
RECURSIVE Strstr(_, _, _)
Strstr(haystack, needle, i) ==
    CASE i > Len(haystack) - Len(needle) -> 0
      [] i <= Len(haystack) - Len(needle) /\ memcmp(Drop(haystack, i), needle, Len(needle)) = 0 -> i + 1
      [] OTHER -> Strstr(haystack, needle, i + 1)
strstr(haystack, needle) == IF Len(haystack) >= Len(needle) THEN Strstr(haystack, needle, 0) ELSE 0
RECURSIVE strnlen(_, _, _)
strnlen(s, maxlen, n) == IF At(s, n + 1) # NUL /\ n < maxlen THEN strnlen(s, maxlen, n + 1) ELSE n
\* strlcpy() and strlcat() to a buffer of SIZE bytes: the string left there and
\* the length returned
strlcpy(dst, src, size) ==
    [str |-> IF size = 0 THEN dst ELSE SubSeq(src, 1, IF Len(src) < size - 1 THEN Len(src) ELSE size - 1),
     ret |-> Len(src)]
strlcat(dst, src, size) ==
    LET copy_cnt == IF Len(src) < size - Len(dst) - 1 THEN Len(src) ELSE size - Len(dst) - 1
    IN  [str |-> IF size > 0 /\ Len(dst) < size THEN dst \o SubSeq(src, 1, copy_cnt) ELSE dst,
         ret |-> Len(src) + Len(dst)]

\* strtok_r() on the bytes buf, from S: the buffer, the token and *SAVE_PTR after it
RECURSIVE SkipDelimiters(_, _, _)
SkipDelimiters(buf, delimiters, s) ==
    IF At(buf, s) # NUL /\ In(At(buf, s), delimiters) THEN SkipDelimiters(buf, delimiters, s + 1) ELSE s
RECURSIVE SkipToken(_, _, _)
SkipToken(buf, delimiters, s) == IF In(At(buf, s), delimiters) THEN s ELSE SkipToken(buf, delimiters, s + 1)
strtok_r(buf, delimiters, s) ==
    LET token == SkipDelimiters(buf, delimiters, s)
        end == SkipToken(buf, delimiters, token)
    IN  CASE At(buf, token) = NUL -> [buf |-> buf, token |-> 0, save |-> token]
          [] At(buf, token) # NUL /\ At(buf, end) # NUL -> [buf |-> [buf EXCEPT ![end] = NUL], token |-> token, save |-> end + 1]
          [] OTHER -> [buf |-> buf, token |-> token, save |-> end]
\* the tokens of successive calls, as pairs of a position and a length
RECURSIVE Tokens(_, _, _)
Tokens(buf, delimiters, s) ==
    LET r == strtok_r(buf, delimiters, s)
    IN  IF r.token = 0 THEN <<>>
        ELSE <<<<r.token, strnlen(Drop(r.buf, r.token - 1), Len(r.buf), 0)>>>> \o Tokens(r.buf, delimiters, r.save)

\* In a number the codes 0..9 are digits, then come white space, the signs and
\* any other character; the value wraps.
White == 10
Plus == 11
Minus == 12
Other == 13
IsDigit(s, i) == i <= Len(s) /\ s[i] <= 9
IntOf(n) == ((n + 2 ^ (INT_BITS - 1)) % 2 ^ INT_BITS) - 2 ^ (INT_BITS - 1)
RECURSIVE SkipWhite(_, _)
SkipWhite(s, i) == IF i <= Len(s) /\ s[i] = White THEN SkipWhite(s, i + 1) ELSE i
RECURSIVE Digits(_, _, _)
Digits(s, i, value) == IF IsDigit(s, i) THEN Digits(s, i + 1, IntOf(value * 10 - s[i])) ELSE value
atoi(s) ==
    LET i == SkipWhite(s, 1)
        sign == IF i <= Len(s) /\ s[i] \in {Plus, Minus} THEN s[i] ELSE Other
        value == Digits(s, IF sign = Other THEN i ELSE i + 1, 0)
    IN  IF sign = Minus THEN value ELSE IntOf(0 - value)
-----------------------------------------------------------------------------
(* Tar headers; a field of octal digits ends with a null byte *)

RECURSIVE StripPrefixes(_)
StripPrefixes(name) ==
    IF At(name, 1) = Slash \/ memcmp(name, <<Dot, Slash>>, 2) = 0 \/ memcmp(name, <<Dot, Dot, Slash>>, 3) = 0
    THEN StripPrefixes(Drop(name, strchr(name, Slash, 1)))
    ELSE name
strip_antisocial_prefixes(name) ==
    LET n == StripPrefixes(name) IN IF n = <<>> \/ n = <<Dot, Dot>> THEN <<Dot>> ELSE n
RECURSIVE Octal(_, _)
Octal(n, digits) == IF digits = 0 THEN <<>> ELSE Append(Octal(n \div 8, digits - 1), n % 8)
RECURSIVE Sum(_)
Sum(d) == IF d = <<>> THEN 0 ELSE d[1] + Sum(Tail(d))
\* the field, from OFS: its value, or -1.  Blank stands for a space or a null
\* byte and any code above it for another character.
Blank == 8
RECURSIVE parse_octal_field(_, _, _)
parse_octal_field(f, ofs, value) ==
    CASE ofs > Len(f) -> 0 - 1
      [] ofs <= Len(f) /\ f[ofs] < Blank -> IF value > (2 ^ INT_BITS - 1) \div 8 THEN 0 - 1
                                         ELSE parse_octal_field(f, ofs + 1, f[ofs] + 8 * value)
      [] ofs <= Len(f) /\ f[ofs] = Blank -> IF ofs > 1 THEN value ELSE 0 - 1
      [] OTHER -> 0 - 1
calculate_chksum(h) == Sum(h.name) + Sum(h.size) + h.typeflag + h.magic
ZeroHeader == [name |-> <<>>, size |-> <<>>, typeflag |-> 0, magic |-> 0, chksum |-> <<>>]
Regular == 0
Directory == 5
\* a name of at most MaxString - 1 characters has a header
ustar_make_header(name, type, size) ==
    LET n == strip_antisocial_prefixes(name)
        h == [name |-> n, size |-> Append(Octal(size, OctalDigits), Blank), typeflag |-> type, magic |-> 1, chksum |-> <<>>]
    IN  IF Len(n) > MaxString - 1 THEN ZeroHeader
        ELSE [h EXCEPT !.chksum = Append(Octal(calculate_chksum(h), OctalDigits), Blank)]
Failure == [ok |-> FALSE]
ustar_parse_header(h) ==
    LET size == IF h.typeflag = Regular THEN parse_octal_field(h.size, 1, 0) ELSE 0
    IN  IF h = ZeroHeader THEN [ok |-> TRUE, type |-> "eof"]
        ELSE IF
           \/ h.magic # 1
           \/ parse_octal_field(h.chksum, 1, 0) # calculate_chksum(h)
           \/ Len(h.name) >= MaxString
           \/ h.typeflag \notin {Regular, Directory}
           \/ size < 0 \/ size > 2 ^ (INT_BITS - 1) - 1
        THEN Failure
        ELSE [ok |-> TRUE, name |-> strip_antisocial_prefixes(h.name), type |-> h.typeflag, size |-> size]
-----------------------------------------------------------------------------
(* The kernel's command line *)

\* read_command_line(): where the ARGC words of the area begin, or the PANIC
RECURSIVE Words(_, _, _)
Words(area, argc, p) ==
    CASE argc = 0 -> <<>>
      [] argc > 0 /\ p > Len(area) -> <<0>>
      [] OTHER -> <<p>> \o Words(area, argc - 1, p + strnlen(Drop(area, p - 1), Len(area) - p + 1, 0) + 1)
read_command_line(area, argc) == Words(area, argc, 1)

\* parse_options(): an option is a pair <<name, value>>, a word that is none
\* ends them.  Where a number or a policy is asked for and there is no value, an
\* ASSERT of atoi() or strcmp() fails.
Panic == [panic |-> TRUE]
Configure(cfg, name, value) ==
    CASE name = "-h" -> [cfg EXCEPT !.off = TRUE]
      [] name \in {"-q", "-r"} -> [cfg EXCEPT !.shutdown = name]
      [] name = "-f" -> [cfg EXCEPT !.format = TRUE]
      [] name \in {"-filesys", "-scratch"} -> [cfg EXCEPT !.values = @ \union {<<name, value>>}]
      [] name = "-ul" /\ value # "" -> [cfg EXCEPT !.values = @ \union {<<name, value>>}]
      [] name = "-rs" /\ value # "" -> [cfg EXCEPT !.seed = value]
      [] name = "-sched" /\ value \in {"fifo", "prio", "fair", "mlfqs"} -> [cfg EXCEPT !.flags = @ \union {value}]
      [] OTHER -> [cfg EXCEPT !.bad = TRUE]
RECURSIVE ParseOptions(_, _)
ParseOptions(argv, cfg) ==
    IF argv = <<>> \/ Head(argv)[1] = "run" \/ cfg.bad \/ cfg.off THEN [cfg EXCEPT !.rest = argv]
    ELSE ParseOptions(Tail(argv), Configure(cfg, Head(argv)[1], Head(argv)[2]))
Defaults == [off |-> FALSE, bad |-> FALSE, shutdown |-> "none", format |-> FALSE, values |-> {}, seed |-> "none",
             flags |-> {}, sched |-> "none", rest |-> <<>>]
parse_options(argv) ==
    LET cfg == ParseOptions(argv, Defaults)
    IN  CASE cfg.bad -> Panic
          [] ~cfg.bad /\ cfg.off -> cfg
          [] ~cfg.bad /\ ~cfg.off /\ Cardinality(cfg.flags) > 1 -> Panic
          [] OTHER -> [cfg EXCEPT !.sched = IF cfg.flags = {} THEN "fifo" ELSE CHOOSE f \in cfg.flags : TRUE,
                                  !.seed = "rtc"]
-----------------------------------------------------------------------------
(* What they must compute *)

Least(set) == IF set = {} THEN 0 ELSE CHOOSE i \in set : \A j \in set : i <= j
Most(set) == IF set = {} THEN 0 ELSE CHOOSE i \in set : \A j \in set : j <= i
Precedes(a, c) == \E i \in 1 .. (Len(c)) : (\A j \in 1 .. (i - 1) : At(a, j) = c[j]) /\ At(a, i) < c[i]
Occurs(n, s, i) == \A j \in DOMAIN n : At(s, i + j - 1) = n[j]
Members(set) == {set[i] : i \in DOMAIN set}
Searches(s, n) == [cmp |-> strcmp(s, n, 1), chr |-> strchr(s, At(n, 1), 1), rchr |-> strrchr(s, At(n, 1), 1, 0),
                   mem |-> memchr(s, Slash, 1, Len(s)), cspn |-> strcspn(s, n, 0), spn |-> strspn(s, n, 0),
                   pbrk |-> strpbrk(s, n, 1), str |-> strstr(s, n), nlen |-> strnlen(s, Len(n), 0),
                   tokens |-> Tokens(s, n, 1)]
SearchesRight(s, n, r) ==
    LET Inside == {i \in DOMAIN s : s[i] \in Members(n)}
        Starts == {i \in DOMAIN s \ Inside : i = 1 \/ i - 1 \in Inside}
        End(i) == CHOOSE j \in i .. Len(s) : (i .. j) \cap Inside = {} /\ (j = Len(s) \/ j + 1 \in Inside)
    IN  /\ r.cmp = CASE s = n -> 0 [] Precedes(s, n) -> 0 - 1 [] OTHER -> 1
        /\ r.chr = IF n = <<>> THEN Len(s) + 1 ELSE Least({i \in DOMAIN s : s[i] = n[1]})
        /\ n # <<>> => r.rchr = Most({i \in DOMAIN s : s[i] = n[1]})
        /\ r.mem = Least({i \in DOMAIN s : s[i] = Slash})
        /\ r.cspn = IF Inside = {} THEN Len(s) ELSE Least(Inside) - 1
        /\ r.spn = IF Inside = DOMAIN s THEN Len(s) ELSE Least(DOMAIN s \ Inside) - 1
        /\ r.pbrk = Least(Inside)
        /\ r.str = Least({i \in 1 .. (Len(s) - Len(n) + 1) : Occurs(n, s, i)})
        /\ r.nlen = IF Len(s) < Len(n) THEN Len(s) ELSE Len(n)
        /\ Len(r.tokens) = Cardinality(Starts)
        /\ \A k \in DOMAIN r.tokens : r.tokens[k][1] \in Starts /\ r.tokens[k][2] = End(r.tokens[k][1]) - r.tokens[k][1] + 1
        /\ \A k \in 1 .. (Len(r.tokens) - 1) : r.tokens[k][1] < r.tokens[k + 1][1]
Prefix(s, n) == SubSeq(s, 1, IF n < Len(s) THEN n ELSE Len(s))
Copies(d, s, size) == [cpy |-> strlcpy(d, s, size), cat |-> strlcat(d, s, size)]
CopiesRight(d, s, size, r) ==
    /\ r.cpy = [str |-> IF size = 0 THEN d ELSE Prefix(s, size - 1), ret |-> Len(s)]
    /\ r.cat = [str |-> IF Len(d) >= size THEN d ELSE Prefix(d \o s, size - 1), ret |-> Len(d \o s)]
Bytes == [1 .. 4 -> {0, 1}]
Moves(mem, dst, src, size) == [move |-> memmove(mem, dst, src, size), set |-> memset(mem, dst, 2, size)]
MovesRight(mem, dst, src, size, r) ==
    /\ r.move.mem = [i \in DOMAIN mem |-> IF i \in dst .. (dst + size - 1) THEN mem[i - dst + src] ELSE mem[i]]
    /\ dst >= src => r.move.ret = dst
    /\ r.set = [i \in DOMAIN mem |-> IF i \in dst .. (dst + size - 1) THEN 2 ELSE mem[i]]
RECURSIVE Decimal(_)
Decimal(d) == IF d = <<>> THEN 0 ELSE d[Len(d)] + 10 * Decimal(SubSeq(d, 1, Len(d) - 1))
\* white space, at most one sign, then as many digits as there are
AtoiRight(s, r) ==
    LET first == Least({i \in DOMAIN s : s[i] # White})
        signed == first # 0 /\ s[first] \in {Plus, Minus}
        from == IF signed THEN first + 1 ELSE first
        upto == Most({k \in DOMAIN s : from # 0 /\ from <= k /\ \A i \in from .. k : s[i] <= 9})
        v == IF upto = 0 THEN 0 ELSE Decimal(SubSeq(s, from, upto))
        n == IF signed /\ s[first] = Minus THEN 0 - v ELSE v
    IN  n \in (0 - 2 ^ (INT_BITS - 1)) .. (2 ^ (INT_BITS - 1) - 1) => r = n
HeadersRight(name, type, size, r) ==
    LET n == strip_antisocial_prefixes(name)
        AntiSocial == {<<Slash>>, <<Dot, Slash>>, <<Dot, Dot, Slash>>}
    IN  /\ \A p \in AntiSocial : Prefix(n, Len(p)) # p
        /\ n # <<>> /\ n # <<Dot, Dot>> /\ (n = <<Dot>> \/ Occurs(n, name, Len(name) - Len(n) + 1))
        /\ Len(n) < MaxString => r.back = [ok |-> TRUE, name |-> n, type |-> type, size |-> IF type = Regular THEN size ELSE 0]
        /\ ~r.damaged.ok
Headers(name, type, size) ==
    LET h == ustar_make_header(name, type, size)
    IN  [back |-> ustar_parse_header(h),
         damaged |-> IF h = ZeroHeader THEN Failure ELSE ustar_parse_header([h EXCEPT !.name[1] = @ + 1])]
WordsRight(area, argc, r) ==
    LET Ends == {i \in DOMAIN area : area[i] = NUL} \union {Len(area) + 1}
    IN  \A k \in DOMAIN r :
            \/ r[k] = 0 /\ k > Cardinality(Ends \ {Len(area) + 1})
            \/ r[k] = 1 /\ k = 1
            \/ k > 1 /\ (r[k] - 1) \in Ends /\ Cardinality({i \in Ends : i < r[k]}) = k - 1
Options == {<<"-h", "">>, <<"-q", "">>, <<"-r", "">>, <<"-f", "">>, <<"-ul", "1">>, <<"-ul", "">>, <<"-rs", "1">>, <<"-sched", "fifo">>,
            <<"-sched", "fair">>, <<"-sched", "other">>, <<"-other", "">>, <<"run", "">>}
\* The options before the first other word take effect, in order.  Nothing is
\* said of the policy where -sched is not given.
OptionsRight(argv, r) ==
    LET n == Least({i \in DOMAIN argv : argv[i][1] = "run"})
        opts == IF n = 0 THEN argv ELSE SubSeq(argv, 1, n - 1)
        named == {opts[i] : i \in DOMAIN opts}
        scheds == {o[2] : o \in {x \in named : x[1] = "-sched"}}
    IN  <<"-h", "">> \notin named =>
          IF \/ {<<"-sched", "other">>, <<"-other", "">>, <<"-ul", "">>} \cap named # {} \/ Cardinality(scheds) > 1
          THEN r = Panic
          ELSE /\ scheds # {} => r.sched = CHOOSE f \in scheds : TRUE
               /\ r.format = (<<"-f", "">> \in named) /\ (r.values # {}) = (<<"-ul", "1">> \in named)
               /\ r.rest = SubSeq(argv, Len(opts) + 1, Len(argv))
               /\ (r.shutdown = "none") = (named \cap {<<"-q", "">>, <<"-r", "">>} = {})
-----------------------------------------------------------------------------
(* The calls, their results and what is right *)

KstringCalls ==
    {[fn |-> "searches", s |-> s, n |-> n] : s \in Strings, n \in Short}
    \union {[fn |-> "copies", s |-> s, d |-> d, size |-> z] : s \in Short, d \in Short, z \in 0 .. 5}
    \union {[fn |-> "moves", mem |-> m, dst |-> d, src |-> s, size |-> z] : m \in Bytes, d \in 1 .. 2, s \in 1 .. 2, z \in 0 .. 3}
    \union [fn : {"atoi"}, s : UNION {[1 .. n -> {0, 4, 6, White, Plus, Minus, Other}] : n \in 0 .. 4}]
    \union {[fn |-> "headers", s |-> s, type |-> t, size |-> z] :
              s \in Strings, t \in {Regular, Directory}, z \in {0, 7, 8, 2 ^ (INT_BITS - 1) - 1}}
    \union {[fn |-> "words", area |-> m, argc |-> n] : m \in Bytes, n \in 0 .. 4}
    \union {[fn |-> "options", argv |-> a] : a \in UNION {[1 .. n -> Options] : n \in 0 .. 3}}
KstringReturn(c) ==
    CASE c.fn = "searches" -> Searches(c.s, c.n)
      [] c.fn = "copies" -> Copies(c.d, c.s, c.size)
      [] c.fn = "moves" -> Moves(c.mem, c.dst, c.src, c.size)
      [] c.fn = "atoi" -> atoi(c.s)
      [] c.fn = "headers" -> Headers(c.s, c.type, c.size)
      [] c.fn = "words" -> read_command_line(c.area, c.argc)
      [] c.fn = "options" -> parse_options(c.argv)
KstringRight(c, r) ==
    CASE c.fn = "searches" -> SearchesRight(c.s, c.n, r)
      [] c.fn = "copies" -> CopiesRight(c.d, c.s, c.size, r)
      [] c.fn = "moves" -> MovesRight(c.mem, c.dst, c.src, c.size, r)
      [] c.fn = "atoi" -> AtoiRight(c.s, r)
      [] c.fn = "headers" -> HeadersRight(c.s, c.type, c.size, r)
      [] c.fn = "words" -> WordsRight(c.area, c.argc, r)
      [] c.fn = "options" -> OptionsRight(c.argv, r)
=============================================================================
