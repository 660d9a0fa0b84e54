-------------------------------- MODULE Ota ---------------------------------
(***************************************************************************)
(* The firmware update (iotx_ota_api.c) over the HTTP client               *)
(* (utils_httpc.c).  One task runs it; the server's bytes arrive in pieces *)
(* of any size, late, or not at all, and the connection may break at every *)
(* call.  A byte of the response is a token <<kind, value>>; a line of its *)
(* head, and the size line of a chunk, is one token.                       *)
(*                                                                         *)
(* Every fetch sends the request, also when the rest of an earlier         *)
(* response is still to be read, so responses queue up on the connection.  *)
(***************************************************************************)
EXTENDS Integers, Sequences

CONSTANTS OtaServers,      \* what a server answers: [mode, n, good]
          OtaSizes,        \* firmware sizes announced to the device
          OtaChunk,        \* bytes of a chunk of a chunked response
          RespBufLen,      \* OTA_BUF_LEN, response_buf_len
          HttpChunkSize,   \* HTTPCLIENT_CHUNK_SIZE, the local buffer
          OtaMaxWire       \* bound: unread bytes the server sends ahead

ASSUME OtaAssumption ==
  /\ HttpChunkSize \in Nat /\ RespBufLen \in Nat /\ OtaMaxWire \in Nat \ {0}
  /\ HttpChunkSize > 3 /\ RespBufLen >= HttpChunkSize /\ OtaChunk \in Nat \ {0}
  /\ \A s \in OtaServers :
       s.n \in Nat /\ s.mode \in {"length", "chunked", "neither", "endless"}

VARIABLES server,  \* external: the server of this update
          wire,    \* external: what it sent and nobody has read
          http,    \* httpclient_t and httpclient_data_t
          call,    \* the locals of the running httpclient_common
          ota,     \* OTA_Struct_t
          got      \* history: the bytes given to the callback and to MD5

otaVars == <<server, wire, http, call, ota, got>>

HTTPCLIENT_MIN(x, y) == IF x < y THEN x ELSE y
Tok(kind, value) == <<kind, value>>
Rest(s, n) == SubSeq(s, n + 1, Len(s))

-----------------------------------------------------------------------------
(* External: the responses a server may give.  `good` is false when the    *)
(* file differs from the announced one (an error page is one: the client   *)
(* does not look at the response code).                                    *)
Content(s) == [i \in 1 .. s.n |-> Tok("byte", IF s.good THEN i ELSE 0)]

ChunkSizes(s) == [k \in 1 .. ((s.n + OtaChunk - 1) \div OtaChunk) |->
                    HTTPCLIENT_MIN(OtaChunk, s.n - (k - 1) * OtaChunk)]

(* Chunk k takes its bytes, a size line and a CRLF.                        *)
Chunked(s) ==
  LET whole == OtaChunk + 2
      total == s.n + 2 * Len(ChunkSizes(s)) + 2
      byte(i) == LET k == ((i - 1) \div whole) + 1
                     p == i - (k - 1) * whole
                 IN  IF k > Len(ChunkSizes(s))
                       THEN IF p = 1 THEN Tok("size", 0) ELSE Tok("crlf", 0)
                     ELSE IF p = 1 THEN Tok("size", ChunkSizes(s)[k])
                     ELSE IF p - 1 > ChunkSizes(s)[k] THEN Tok("crlf", 0)
                     ELSE Content(s)[(k - 1) * OtaChunk + p - 1]
  IN  [i \in 1 .. total |-> byte(i)]

Response(s) ==
  <<Tok("http", 0), Tok("crlf", 0)>> \o
  ( CASE s.mode = "length"  -> <<Tok("content-length", s.n), Tok("empty", 0)>> \o Content(s)
      [] s.mode = "chunked" -> <<Tok("chunked", 0), Tok("empty", 0)>> \o Chunked(s)
      [] s.mode = "neither" -> <<Tok("other", 0), Tok("empty", 0)>> \o Content(s)
      [] s.mode = "endless" -> [i \in 1 .. HttpChunkSize |-> Tok("part", 0)] )

-----------------------------------------------------------------------------
NoCall == [pc |-> "idle", diff |-> 0, data |-> <<>>, readLen |-> 0, out |-> <<>>,
           ret |-> 0]

(* Mutant: an error is tried again at once.                                *)
FailRetried ==
  /\ http' = [http EXCEPT !.handle = -1]
  /\ wire' = <<>>
  /\ call' = [NoCall EXCEPT !.pc = "fetch"]

(* Any error below httpclient_common: the connection is closed.            *)
Fail ==
  /\ http' = [http EXCEPT !.handle = -1]
  /\ wire' = <<>>
  /\ call' = [call EXCEPT !.pc = "back", !.ret = -1, !.data = <<>>]

(* Mutant: what the fetches before have returned is counted again.         *)
ReturnAll(h, out) ==
  /\ http' = IF h.is_more THEN h ELSE [h EXCEPT !.handle = -1]
  /\ call' = [call EXCEPT !.pc = "back", !.out = out, !.data = <<>>,
                !.ret = h.response_content_len - h.retrieve_len]

(* The end of httpclient_common and of ofc_Fetch, with the data structure h:*)
(* the connection stays open while there is more.                           *)
Return(h, out) ==
  /\ http' = IF h.is_more THEN h ELSE [h EXCEPT !.handle = -1]
  /\ call' = [call EXCEPT !.pc = "back", !.out = out, !.data = <<>>,
                !.ret = h.response_content_len - h.retrieve_len - call.diff]

(* httpclient_recv: an error, or up to `max` of the bytes that have come;   *)
(* none of them means that the time is over.                                *)
RecvLengths(max) == 0 .. HTTPCLIENT_MIN(max, Len(wire))

Recv(max, Then(_)) ==
  \/ Fail
  \/ \E n \in RecvLengths(max) :
       /\ wire' = Rest(wire, n)
       /\ Then(SubSeq(wire, 1, n))

(* httpclient_retrieve_content with the bytes in `data`.                   *)
RetrieveContent(h, data) ==
  /\ http' = [h EXCEPT !.is_more = TRUE]
  /\ call' = [call EXCEPT !.data = data, !.out = <<>>, !.readLen = h.retrieve_len,
                !.pc = IF h.is_chunked THEN IF h.retrieve_len <= 0 THEN "size" ELSE "copy"
                       ELSE IF h.response_content_len = -1 THEN "unknown" ELSE "copy"]

-----------------------------------------------------------------------------
(* otaUpdate: IOT_OTA_Init, the callback, and IOT_OTA_Update is called.    *)
OtaStart(size, s) ==
  /\ ota.state = "uninited"
  /\ ota' = [ota EXCEPT !.state = "inited", !.size_file = size]
  /\ server' = s
  /\ call' = [NoCall EXCEPT !.pc = "fetch"]
  /\ UNCHANGED <<wire, http, got>>

(* httpclient_common up to the response: a connection when there is none,  *)
(* and the request, header by header.  A URL without host or path, and one *)
(* too long, fails here like a connection or a write that fails.           *)
OtaRequest ==
  /\ call.pc = "fetch"
  /\ \/ Fail /\ UNCHANGED <<server, ota, got>>
     \/ LET before == IF http.handle < 0 THEN <<>> ELSE wire
            h == [http EXCEPT !.handle = 1]
            c == [NoCall EXCEPT !.diff = http.response_content_len - http.retrieve_len]
        IN  /\ wire' = IF Len(before) >= OtaMaxWire THEN before
                       ELSE before \o Response(server)
            /\ IF http.is_more
                 THEN /\ http' = h
                      /\ call' = [c EXCEPT !.pc = "rest"]
                 ELSE /\ http' = [h EXCEPT !.is_more = TRUE]
                      /\ call' = [c EXCEPT !.pc = "first"]
            /\ UNCHANGED <<server, ota, got>>

(* httpclient_recv_response on a response read in part: the local buffer   *)
(* starts empty, whatever an earlier call had left in its own.             *)
OtaRest ==
  /\ call.pc = "rest"
  /\ RetrieveContent(http, <<>>)
  /\ UNCHANGED <<server, wire, ota, got>>

(* httpclient_recv_response, first read: without a byte the call returns   *)
(* well, with is_more set; otherwise the status line must have come whole. *)
OtaFirst ==
  /\ call.pc = "first"
  /\ Recv(HttpChunkSize - 1, LAMBDA s :
       IF s = <<>> THEN Return(http, <<>>)
       ELSE IF Len(s) < 2 \/ s[1][1] # "http"
         THEN /\ http' = [http EXCEPT !.handle = -1, !.response_content_len = -1]
              /\ call' = [call EXCEPT !.pc = "back", !.ret = -1]
         ELSE /\ http' = [http EXCEPT !.response_content_len = -1, !.is_chunked = FALSE]
              /\ call' = [call EXCEPT !.pc = "head", !.data = Rest(s, 2)])
  /\ UNCHANGED <<server, ota, got>>

(* httpclient_response_parse: a header line, or more bytes when no line is *)
(* complete and the buffer has room.                                       *)
OtaHead ==
  /\ call.pc = "head"
  /\ IF call.data = <<>> \/ call.data[1][1] = "part"
       THEN IF Len(call.data) < HttpChunkSize - 1
              THEN Recv(HttpChunkSize - Len(call.data) - 1, LAMBDA s :
                     /\ call' = [call EXCEPT !.data = @ \o s]
                     /\ UNCHANGED http)
              ELSE Fail
       ELSE LET line == call.data[1]
                more == Tail(call.data)
            IN  /\ UNCHANGED wire
                /\ \/ line[1] = "empty" /\ RetrieveContent(http, more)
                   \/ /\ line[1] = "content-length"
                      /\ http' = [http EXCEPT !.response_content_len = line[2],
                                              !.retrieve_len = line[2]]
                      /\ call' = [call EXCEPT !.data = more]
                   \/ /\ line[1] = "chunked"
                      /\ http' = [http EXCEPT !.is_chunked = TRUE, !.retrieve_len = 0,
                                              !.response_content_len = 0]
                      /\ call' = [call EXCEPT !.data = more]
                   \/ /\ line[1] \notin {"empty", "content-length", "chunked"}
                      /\ UNCHANGED http /\ call' = [call EXCEPT !.data = more]
  /\ UNCHANGED <<server, ota, got>>

Free == RespBufLen - 1 - Len(call.out)

(* Neither length nor chunks: everything up to a silence or a full buffer. *)
OtaUnknown ==
  /\ call.pc = "unknown"
  /\ LET out == call.out \o SubSeq(call.data, 1, HTTPCLIENT_MIN(Len(call.data), Free))
     IN  IF Len(call.data) >= Free
           THEN Return(http, out) /\ UNCHANGED wire
           ELSE Recv(HTTPCLIENT_MIN(HttpChunkSize - 1, Free - Len(call.data)), LAMBDA s :
                  IF s = <<>> THEN Return([http EXCEPT !.is_more = FALSE], out)
                  ELSE UNCHANGED http /\ call' = [call EXCEPT !.data = s, !.out = out])
  /\ UNCHANGED <<server, ota, got>>

(* The size line of a chunk.  It counts once a byte follows it.  A line    *)
(* that starts with anything but a size ends the call; firmware bytes may  *)
(* look like one.                                                          *)
LineAt(data) == {i \in 1 .. Len(data) - 1 : data[i][1] \in {"size", "crlf"}}

OtaSize ==
  /\ call.pc = "size"
  /\ IF LineAt(call.data) = {}
       THEN IF Len(call.data) < HttpChunkSize
              THEN Recv(HttpChunkSize - Len(call.data) - 1, LAMBDA s :
                     /\ call' = [call EXCEPT !.data = @ \o s]
                     /\ UNCHANGED http)
              ELSE Fail
       ELSE LET i == CHOOSE i \in LineAt(call.data) : \A j \in LineAt(call.data) : i <= j
                more == Rest(call.data, i)
                sized(n) ==
                  LET h == [http EXCEPT !.retrieve_len = n, !.response_content_len = @ + n]
                  IN  IF n = 0 THEN Return([h EXCEPT !.is_more = FALSE], call.out)
                      ELSE http' = h /\ call' = [call EXCEPT !.data = more, !.readLen = n,
                                                             !.pc = "copy"]
            IN  \/ Fail /\ call.data[1][1] # "size"
                \/ call.data[1][1] = "size" /\ sized(call.data[1][2]) /\ UNCHANGED wire
                \/ call.data[1][1] = "byte" /\ (\E n \in 0 .. 1 : sized(n)) /\ UNCHANGED wire
  /\ UNCHANGED <<server, ota, got>>

(* The bytes of the content: copy what there is, stop at a full buffer,    *)
(* read on while some are missing.  Bytes are taken out of the local       *)
(* buffer only if others come behind them.                                 *)
OtaCopy ==
  /\ call.pc = "copy"
  /\ LET templen == HTTPCLIENT_MIN(Len(call.data), call.readLen)
         out == call.out \o SubSeq(call.data, 1, HTTPCLIENT_MIN(templen, Free))
     IN  IF templen >= Free
           THEN /\ Return([http EXCEPT !.retrieve_len = @ - Free], out)
                /\ UNCHANGED wire
         ELSE IF templen < call.readLen
           THEN Recv(HTTPCLIENT_MIN(HTTPCLIENT_MIN(HttpChunkSize - 1, Free - templen),
                                    call.readLen - templen), LAMBDA s :
                  /\ http' = [http EXCEPT !.retrieve_len = @ - templen]
                  /\ call' = [call EXCEPT !.data = s, !.out = out, !.readLen = @ - templen])
         ELSE /\ UNCHANGED wire
              /\ LET h == [http EXCEPT !.retrieve_len = @ - templen]
                 IN  IF http.is_chunked
                       THEN /\ http' = h
                            /\ call' = [call EXCEPT !.pc = "trailer", !.out = out,
                                 !.data = IF Len(@) > templen THEN Rest(@, templen) ELSE @]
                       ELSE Return([h EXCEPT !.is_more = FALSE], out)
  /\ UNCHANGED <<server, ota, got>>

(* The end of a chunk is looked for where the buffer begins: there are the *)
(* chunk's own bytes when its last one ended the buffer, which is an error *)
(* unless they look like a CRLF.  So is a part that has not come in time.  *)
OtaTrailer ==
  /\ call.pc = "trailer"
  /\ LET ends(n) == /\ call' = [call EXCEPT !.pc = "size", !.data = Rest(@, n)]
                    /\ UNCHANGED <<wire, http>>
     IN  \/ Fail /\ (call.data[1][1] # "crlf" \/ Len(call.data) = 1)
         \/ ends(1) /\ call.data[1][1] = "crlf"
         \/ ends(2) /\ Len(call.data) >= 2 /\ \A i \in 1 .. 2 : call.data[i][1] = "byte"
  /\ UNCHANGED <<server, ota, got>>

-----------------------------------------------------------------------------
(* The buffer is not cleared: what the result counts beyond what was read  *)
(* are bytes of an earlier fetch.                                          *)
Given(out, ret) == [i \in 1 .. ret |-> IF i <= Len(out) THEN out[i] ELSE Tok("byte", 0)]

(* MD5 is external: it tells the announced file from every other.          *)
Md5Matches(bytes, size) == bytes = [i \in 1 .. size |-> Tok("byte", i)]

(* The rest of a turn of IOT_OTA_Update, after ofc_Fetch.                  *)
OtaFetched ==
  /\ call.pc = "back"
  /\ IF call.ret < 0
       THEN /\ ota' = [ota EXCEPT !.state = "fetched", !.err = "fetch_failed"]
            /\ call' = [NoCall EXCEPT !.pc = "done"]
            /\ UNCHANGED got
       ELSE LET now == got \o Given(call.out, call.ret)
            IN  /\ got' = now
                /\ IF Len(now) >= ota.size_file
                     THEN /\ call' = [NoCall EXCEPT !.pc = "done"]
                          /\ ota' = [ota EXCEPT !.state = "fetched",
                               !.err = IF Md5Matches(now, ota.size_file) THEN "none"
                                       ELSE "check_failed"]
                     ELSE call' = [NoCall EXCEPT !.pc = "fetch"] /\ UNCHANGED ota
  /\ UNCHANGED <<server, wire, http>>

(* IOT_OTA_Deinit: the connection's structure is freed, open or not.       *)
OtaDeinit ==
  /\ call.pc = "done"
  /\ call' = [NoCall EXCEPT !.pc = "freed"]
  /\ UNCHANGED <<server, wire, http, ota, got>>

OtaInit ==
  /\ server = [mode |-> "neither", n |-> 0, good |-> FALSE]
  /\ wire = <<>>
  /\ http = [handle |-> -1, is_more |-> FALSE, is_chunked |-> FALSE,
             retrieve_len |-> 0, response_content_len |-> 0]
  /\ call = NoCall
  /\ ota = [state |-> "uninited", err |-> "none", size_file |-> 0]
  /\ got = <<>>

OtaNext ==
  \/ \E size \in OtaSizes, s \in OtaServers : OtaStart(size, s)
  \/ OtaRequest \/ OtaRest \/ OtaFirst \/ OtaHead \/ OtaUnknown
  \/ OtaSize \/ OtaCopy \/ OtaTrailer \/ OtaFetched \/ OtaDeinit

OtaSpec == OtaInit /\ [][OtaNext]_otaVars

(* The task runs on; a read on a connection that stays up gets bytes in    *)
(* the end, and a first read that is repeated again and again is in time   *)
(* once.                                                                   *)
OtaFairness ==
  /\ WF_otaVars(OtaNext)
  /\ SF_otaVars(OtaFirst /\ call'.pc = "head")

-----------------------------------------------------------------------------
(* The types of the variables; the buffer holds a zero after its bytes.    *)
OtaTypeOK ==
  /\ http.handle \in {-1, 1}
  /\ http.is_more \in BOOLEAN /\ http.is_chunked \in BOOLEAN
  /\ http.retrieve_len \in Nat /\ http.response_content_len \in Nat \cup {-1}
  /\ Len(call.data) < HttpChunkSize /\ Len(call.out) < RespBufLen
  /\ ota.state \in {"uninited", "inited", "fetched"}
  /\ ota.err \in {"none", "fetch_failed", "check_failed"}

(* The lengths kept across the calls say what is still to come: while the  *)
(* server announces its length, the application and the MD5 get the bytes  *)
(* of its file in order, none twice and none left out, however they arrive *)
(* and although every fetch asks for the file again.                       *)
OtaInOrder ==
  server.mode = "length" /\ server.good =>
    \A i \in 1 .. Len(got) : got[i] = Tok("byte", i)

(* An update of a file the server announces the length of, and that is not *)
(* shorter than the device was told, ends: fetches that give nothing are   *)
(* not repeated for ever.                                                  *)
OtaEnds ==
  call.pc = "fetch" /\ server.mode = "length" /\ server.n >= ota.size_file
    ~> call.pc = "freed"

=============================================================================
