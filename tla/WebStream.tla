---------------------------- MODULE WebStream ----------------------------
(* How gweb/gweb.c takes an answer apart while it arrives: header lines, with *)
(* continuation lines and repeated fields, then a body that is plain or       *)
(* chunked, and the GWebParser that looks for an item between two tokens in   *)
(* the body, as the portal check does.  The network decides how many bytes    *)
(* each reading returns.                                                      *)
(*                                                                            *)
(* A byte is a symbol: CR and LF, a blank, a colon, digits of a chunk size,   *)
(* "H" for a status line, "T" for the Transfer-Encoding field with "c" for    *)
(* chunked, and letters that stand for themselves.                            *)
EXTENDS Integers, Sequences, SequencesExt, TLC

CONSTANTS
  Answers,     \* [lines, chunks, chunked, items]: what a server may send
  BeginToken, EndToken,   \* of the parser
  MaxRead,     \* bytes of one reading
  SplitLines   \* whether a reading may end between the CR and the LF of a line

VARIABLE s

vars == <<s>>

CRLF == <<"CR", "LF">>

(* The server's side: an answer as the bytes that HTTP prescribes.            *)

Digit == <<"1", "2", "3">>

EncodedChunk(c) == <<"0", Digit[Len(c)]>> \o CRLF \o c \o CRLF

Encoded(a) ==
  FlattenSeq([i \in DOMAIN a.lines |-> a.lines[i] \o CRLF]) \o CRLF \o
  (IF a.chunked
   THEN FlattenSeq([i \in DOMAIN a.chunks |-> EncodedChunk(a.chunks[i])])
          \o <<"0">> \o CRLF \o CRLF
   ELSE FlattenSeq(a.chunks))

-----------------------------------------------------------------------------
(* GWebParser.                                                                *)

NewParser == [intoken |-> FALSE, token_pos |-> 0, content |-> << >>, found |-> << >>]

Token(p) == IF p.intoken THEN EndToken ELSE BeginToken

\* One byte of g_web_parser_feed_data().
ParserByte(p, b) ==
  LET matches == b = Token(p)[p.token_pos + 1]
      kept == IF p.intoken THEN Append(p.content, b) ELSE p.content
      whole == p.token_pos + 1 = Len(Token(p))
  IN CASE matches /\ whole /\ p.intoken ->
            [NewParser EXCEPT !.found = Append(p.found, kept)]
       [] matches /\ whole /\ ~p.intoken ->
            [p EXCEPT !.intoken = TRUE, !.token_pos = 0, !.content = BeginToken]
       [] matches /\ ~whole -> [p EXCEPT !.token_pos = @ + 1, !.content = kept]
       [] ~matches -> [p EXCEPT !.token_pos = 0, !.content = kept]

\* Faulty variant: each piece of data is searched from the token's start.
g_web_parser_feed_data_Afresh(p, data) ==
  FoldLeft(ParserByte, [p EXCEPT !.token_pos = 0], data)

g_web_parser_feed_data(p, data) == FoldLeft(ParserByte, p, data)

-----------------------------------------------------------------------------
(* The body.                                                                  *)

\* call_result_func_success(): the client gets the data and feeds its parser.
call_result_func_success(d, data) ==
  [d EXCEPT !.delivered = @ \o data, !.parser = g_web_parser_feed_data(@, data)]

Position(b, buf) ==
  LET at == {i \in DOMAIN buf : buf[i] = b}
  IN IF at = {} THEN 0 ELSE CHOOSE i \in at : \A j \in at : i <= j

From(buf, i) == SubSeq(buf, i, Len(buf))
UpTo(buf, i) == SubSeq(buf, 1, i)

Value(digits) ==
  FoldLeft(LAMBDA n, c : IF c = "0" \/ Position(c, Digit) > 0 THEN 16 * n + Position(c, Digit) ELSE n,
           0, digits)

RECURSIVE decode_chunked(_, _)

\* Faulty variant: what was read of a chunk's size is forgotten.
ChunkSize_Forget(d, buf) ==
  LET pos == Position("LF", buf)
  IN IF pos = 0 THEN d
     ELSE IF pos < 2 \/ buf[pos - 1] /= "CR" THEN [d EXCEPT !.failed = TRUE]
     ELSE decode_chunked([d EXCEPT !.current_header = UpTo(buf, pos - 1),
                                   !.chunk_size = Value(UpTo(buf, pos - 1)),
                                   !.chunk_left = Value(UpTo(buf, pos - 1)),
                                   !.chunk_state = "data"], From(buf, pos + 1))

\* The state CHUNK_SIZE: a line with the size, or the beginning of one.
ChunkSize(d, buf) ==
  LET pos == Position("LF", buf)
      line == d.current_header \o UpTo(buf, pos - 1)
  IN IF pos = 0 THEN [d EXCEPT !.current_header = @ \o buf]
     ELSE IF pos < 2 \/ buf[pos - 1] /= "CR" THEN [d EXCEPT !.failed = TRUE]
     ELSE decode_chunked([d EXCEPT !.current_header = line,
                                   !.chunk_size = Value(line), !.chunk_left = Value(line),
                                   !.chunk_state = "data"], From(buf, pos + 1))

\* The state CHUNK_DATA: the rest of a chunk, or a part of it.
ChunkData(d, buf) ==
  IF d.chunk_size = 0 THEN [d EXCEPT !.current_header = << >>]
  ELSE IF d.chunk_left <= Len(buf)
  THEN decode_chunked([call_result_func_success(d, UpTo(buf, d.chunk_left))
                         EXCEPT !.chunk_left = 0, !.current_header = << >>, !.chunk_state = "r"],
                      From(buf, d.chunk_left + 1))
  ELSE [call_result_func_success(d, buf) EXCEPT !.chunk_left = @ - Len(buf)]

decode_chunked(d, buf) ==
  CASE buf = << >> -> d
    [] buf /= << >> /\ d.chunk_state = "size" -> ChunkSize(d, buf)
    [] buf /= << >> /\ d.chunk_state = "data" -> ChunkData(d, buf)
    [] buf /= << >> /\ d.chunk_state = "r" ->
         IF buf[1] /= "CR" THEN [d EXCEPT !.failed = TRUE]
         ELSE decode_chunked([d EXCEPT !.chunk_state = "n"], Tail(buf))
    [] buf /= << >> /\ d.chunk_state = "n" ->
         IF buf[1] /= "LF" THEN [d EXCEPT !.failed = TRUE]
         ELSE decode_chunked([d EXCEPT !.chunk_state = "size"], Tail(buf))

handle_body(d, buf) ==
  IF d.use_chunk THEN decode_chunked(d, buf)
  ELSE IF buf = << >> THEN d
  ELSE call_result_func_success(d, buf)

-----------------------------------------------------------------------------
(* The header.                                                                *)

Field(d, key) == IF key \in DOMAIN d.headers THEN d.headers[key] ELSE << >>

SkipBlanks(str) ==
  LET rest == {i \in 1..Len(str) + 1 : \A j \in 1..i - 1 : str[j] = " "}
  IN From(str, CHOOSE i \in rest : \A j \in rest : j <= i)

handle_multi_line(d) ==
  IF d.last_key = << >> THEN d
  ELSE [d EXCEPT !.headers = (d.last_key :> (Field(d, d.last_key) \o <<" ">>
                                             \o SkipBlanks(d.current_header))) @@ @]

add_header_field(d) ==
  LET str == d.current_header
      pos == Position(":", str)
      key == UpTo(str, pos - 1)
      value == SkipBlanks(From(str, pos + 1))
  IN IF pos = 0 THEN d
     ELSE [d EXCEPT !.last_key = key,
                    !.headers = (key :> (IF key \in DOMAIN @ THEN @[key] \o <<";", " ">> \o value
                                         ELSE value)) @@ @]

\* The status of the first line that has one, then the line as a field.
HeaderLine(d) ==
  LET str == d.current_header
      read == IF d.status = "unknown" /\ str[1] = "H" THEN [d EXCEPT !.status = str[2]] ELSE d
  IN [(IF str[1] = " " THEN handle_multi_line(read) ELSE add_header_field(read))
        EXCEPT !.current_header = << >>]

HeadersDone(d) ==
  [d EXCEPT !.header_done = TRUE,
            !.use_chunk = Position("c", Field(d, <<"T">>)) > 0]

RECURSIVE received_data_continue(_, _)
received_data_continue(d, buf) ==
  LET pos == Position("LF", buf)
      end == IF pos > 1 /\ buf[pos - 1] = "CR" THEN pos - 2 ELSE pos - 1
      line == [d EXCEPT !.current_header = @ \o UpTo(buf, end)]
  IN IF d.header_done THEN handle_body(d, buf)
     ELSE IF buf = << >> THEN d
     ELSE IF pos = 0 THEN [d EXCEPT !.current_header = @ \o buf]
     ELSE IF line.current_header = << >> THEN handle_body(HeadersDone(line), From(buf, pos + 1))
     ELSE received_data_continue(HeaderLine(line), From(buf, pos + 1))

-----------------------------------------------------------------------------
(* Readings.                                                                  *)

NewDecoder ==
  [header_done |-> FALSE, current_header |-> << >>, status |-> "unknown", headers |-> << >>,
   last_key |-> << >>, use_chunk |-> FALSE, chunk_state |-> "size", chunk_size |-> 0,
   chunk_left |-> 0, delivered |-> << >>, failed |-> FALSE, parser |-> NewParser]

Init == \E a \in Answers : s = [answer |-> a, coming |-> Encoded(a), d |-> NewDecoder]

\* Between CR and LF of a header line or of a chunk's size.
InsideLineEnd(d) == d.current_header /= << >> /\ Last(d.current_header) = "CR"

Read(n) ==
  /\ n <= Len(s.coming) /\ ~s.d.failed
  /\ s' = [s EXCEPT !.coming = From(@, n + 1),
                    !.d = received_data_continue(@, UpTo(s.coming, n))]
  /\ ~SplitLines /\ n < Len(s.coming) => s'.d.chunk_state = "data" \/ ~InsideLineEnd(s'.d)

Next == \E n \in 1..MaxRead : Read(n)

Spec == Init /\ [][Next]_vars

-----------------------------------------------------------------------------
(* Properties.                                                                *)

\* What a client gets does not depend on where the network cuts the answer: the
\* data delivered is at all times a beginning of the body the server sent, and once
\* everything is read it is the whole body, the fields are those of the header and
\* the parser has found the item of the body.
SplitsDoNotMatter ==
  LET body == FlattenSeq(s.answer.chunks)
  IN /\ ~s.d.failed
     /\ IsPrefix(s.d.delivered, body)
     /\ s.coming = << >> =>
          /\ s.d.delivered = body
          /\ s.d.headers = s.answer.fields
          /\ s.d.parser.found = s.answer.items

-----------------------------------------------------------------------------
(* How gweb/gweb.c takes the URL of a request, and that of a proxy, apart:    *)
(* scheme, host or address, port and path, each found by searching what is    *)
(* left of the URL for its delimiter.                                         *)
(*                                                                            *)
(* A URL is a sequence of symbols: the delimiters, and words and numbers that *)
(* stand for themselves.  A component that is absent is << >>.                *)

CONSTANTS
  Schemes,     \* sequences: << >> or <<"http">>, ...
  Hosts,       \* sequences, IPv6 addresses with their colons
  Ports,       \* << >> or <<number as a word>>
  PortValue,   \* the number a word stands for
  Paths,       \* << >> or the path with its leading "/"
  Proxies      \* [scheme, host, port]: << >> of each for no proxy

None == -1

\* A URL as RFC 2732 writes it.
IsIpv6(host) == Position(":", host) > 0
Built(scheme, host, port, path) ==
  (IF scheme = << >> THEN << >> ELSE scheme \o <<":", "/", "/">>)
  \o (IF IsIpv6(host) THEN <<"[">> \o host \o <<"]">> ELSE host)
  \o (IF port = << >> THEN << >> ELSE <<":">> \o port)
  \o path

-----------------------------------------------------------------------------
(* The parsers: each takes a record with what is left of the URL (`rest') and *)
(* adds the component it finds.                                               *)

Parsing(url) ==
  [rest |-> url, err |-> FALSE, scheme |-> << >>, host |-> << >>, port |-> None, path |-> << >>]

parse_url_scheme(p) ==
  LET at == {i \in 1..Len(p.rest) - 2 : SubSeq(p.rest, i, i + 2) = <<":", "/", "/">>}
      pos == CHOOSE i \in at : \A j \in at : i <= j
  IN IF at = {} THEN p
     ELSE [p EXCEPT !.scheme = UpTo(p.rest, pos - 1), !.rest = From(@, pos + 3)]

\* Where a host that is not in brackets ends.
HostLength(rest) ==
  IF Position(":", rest) > 0 THEN Position(":", rest) - 1
  ELSE IF Position("/", rest) > 0 THEN Position("/", rest) - 1
  ELSE Len(rest)

\* Faulty variant: the closing bracket is not looked for.
parse_url_host_NoBrackets(p) ==
  LET length == HostLength(p.rest)
  IN IF length <= 0 THEN [p EXCEPT !.err = TRUE]
     ELSE [p EXCEPT !.host = UpTo(p.rest, length), !.rest = From(@, length + 1)]

\* The cursor moves by the length of the host, brackets not counted.
parse_url_host(p) ==
  LET open == Position("[", p.rest)
      close == Position("]", p.rest)
      length == IF open > 0 THEN close - open - 1 ELSE HostLength(p.rest)
      start == IF open > 0 THEN open + 1 ELSE 1
  IN IF (open > 0 /\ close = 0) \/ length <= 0 THEN [p EXCEPT !.err = TRUE]
     ELSE [p EXCEPT !.host = SubSeq(p.rest, start, start + length - 1),
                    !.rest = From(@, length + 1)]

UINT16_MAX == 65535
AsInt16(n) == IF n > 32767 THEN n - 65536 ELSE n
AsUint16(n) == n % 65536

\* Faulty variant: the port is kept as the number itself and -1 is not special.
parse_url_port_Signed(p) ==
  LET pos == Position(":", p.rest)
      digits == pos > 0 /\ pos < Len(p.rest) /\ p.rest[pos + 1] \in DOMAIN PortValue
  IN IF pos = 0 THEN p
     ELSE IF ~digits \/ PortValue[p.rest[pos + 1]] > 32767 THEN [p EXCEPT !.err = TRUE]
     ELSE [p EXCEPT !.port = PortValue[p.rest[pos + 1]], !.rest = From(@, 2)]

\* The port goes into an int16_t; the cursor moves by its digits only.
parse_url_port(p) ==
  LET pos == Position(":", p.rest)
      digits == pos > 0 /\ pos < Len(p.rest) /\ p.rest[pos + 1] \in DOMAIN PortValue
  IN IF pos = 0 THEN p
     ELSE IF ~digits \/ PortValue[p.rest[pos + 1]] > UINT16_MAX THEN [p EXCEPT !.err = TRUE]
     ELSE [p EXCEPT !.port = AsInt16(PortValue[p.rest[pos + 1]]), !.rest = From(@, 2)]

parse_url_host_and_port(p) ==
  LET h == parse_url_host(p) IN IF h.err THEN h ELSE parse_url_port(h)

parse_url_path(p) ==
  IF Position("/", p.rest) = 0 THEN p
  ELSE [p EXCEPT !.path = From(p.rest, Position("/", p.rest) + 1)]

parse_url_components(url) ==
  LET hp == parse_url_host_and_port(parse_url_scheme(Parsing(url)))
  IN IF hp.err THEN hp ELSE parse_url_path(hp)

-----------------------------------------------------------------------------
(* What a session takes from its URLs.                                        *)

NewSession == [err |-> FALSE, port |-> 0, host |-> << >>, hostPort |-> None, request |-> << >>,
               address |-> << >>]

\* What a pointer to memory that was freed refers to.
Freed == <<"freed">>

SchemePort(scheme) == IF scheme = <<"https">> THEN 443 ELSE 80

parse_request_url(ses, url, has_proxy_url) ==
  LET c == parse_url_components(url)
  IN IF c.err \/ c.scheme \notin {<< >>, <<"http">>, <<"https">>} THEN [ses EXCEPT !.err = TRUE]
     ELSE [ses EXCEPT !.port = IF c.port /= None THEN AsUint16(c.port) ELSE SchemePort(c.scheme),
                      !.host = c.host,
                      !.hostPort = IF has_proxy_url THEN c.port ELSE None,
                      !.request = IF has_proxy_url THEN url ELSE <<"/">> \o c.path]

\* The session's address points to the parsed host, which is freed on return.
parse_proxy_url(ses, url) ==
  LET c == parse_url_host_and_port(parse_url_scheme(Parsing(url)))
  IN IF c.err \/ c.scheme \notin {<< >>, <<"http">>} THEN [ses EXCEPT !.err = TRUE]
     ELSE [ses EXCEPT !.address = Freed,
                      !.port = IF c.port /= None THEN AsUint16(c.port) ELSE @]

parse_request_and_proxy_urls(url, has_proxy_url, proxy) ==
  LET r == parse_request_url(NewSession, url, has_proxy_url)
  IN IF r.err \/ ~has_proxy_url THEN r ELSE parse_proxy_url(r, proxy)

-----------------------------------------------------------------------------
HasProxy(x) == x.proxy.host /= << >>

UrlInit ==
  \E scheme \in Schemes, host \in Hosts, port \in Ports, path \in Paths, proxy \in Proxies :
    s = [scheme |-> scheme, host |-> host, port |-> port, path |-> path, proxy |-> proxy,
         done |-> FALSE, ses |-> NewSession]

Parse ==
  /\ ~s.done
  /\ s' = [s EXCEPT !.done = TRUE,
                    !.ses = parse_request_and_proxy_urls(
                              Built(s.scheme, s.host, s.port, s.path), HasProxy(s),
                              Built(s.proxy.scheme, s.proxy.host, s.proxy.port, << >>))]

UrlNext == Parse

UrlSpec == UrlInit /\ [][UrlNext]_vars

-----------------------------------------------------------------------------
(* Properties.                                                                *)

\* The port that a URL names, or that its scheme implies.
Named(x) ==
  IF HasProxy(x) /\ x.proxy.port /= << >> THEN PortValue[x.proxy.port[1]]
  ELSE IF x.port /= << >> THEN PortValue[x.port[1]]
  ELSE SchemePort(x.scheme)

\* Parsing is the inverse of writing: a URL that RFC 2732 allows, with or without a
\* scheme, port and path and with a name, an IPv4 or a bracketed IPv6 address as its
\* host, gives the session the host, the port and the path it was written from; the
\* ports from 32768 on survive the int16_t they pass through, and a port beyond
\* 65535 is refused.  Of a proxy only its port is kept: the session without one has
\* no address yet, the one with a proxy has one that was freed.
UrlRoundTrip ==
  s.done =>
    IF s.port /= << >> /\ PortValue[s.port[1]] > UINT16_MAX THEN s.ses.err
    ELSE /\ ~s.ses.err
         /\ s.ses.host = s.host
         /\ s.ses.port = Named(s)
         /\ ~HasProxy(s) => s.ses.request = IF s.path = << >> THEN <<"/">> ELSE s.path
         /\ s.ses.address = IF HasProxy(s) THEN Freed ELSE << >>

=============================================================================
