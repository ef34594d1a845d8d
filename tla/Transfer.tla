------------------------------ MODULE Transfer ------------------------------
(***************************************************************************)
(* Bulk transfer over one connection: ttcp, with muduo or with blocking    *)
(* sockets at either end (examples/ace/ttcp/ttcp.cc, ttcp_blocking.cc),    *)
(* and the three file servers (examples/filetransfer/download*.cc).        *)
(***************************************************************************)
EXTENDS Integers, Sequences, FiniteSetsExt, SequencesExt

CONSTANTS TrNumbers, TrLengths,   \* payloads in a session; cells in a payload
          FtFiles,                \* sizes of the file, in cells
          FtBuf                   \* kBufSize

TrRoom == 3                       \* bound: cells the network holds each way

(* kind: ttcp or a file server.  tr: a ttcp session; an int32 has two      *)
(* cells.  tx, rx: "muduo" or "blocking"; each side has the bytes it still *)
(* has to write (out), those it has read (in), its Context, and done.      *)
(* ft: a connection of a file server, the bytes of the file by number.     *)
VARIABLE xf

TrSide(kind) == [kind |-> kind, out |-> <<>>, in |-> <<>>, number |-> 0, length |-> 0, count |-> 0, bytes |-> 0,
                 begun |-> FALSE, fin |-> FALSE, gone |-> FALSE]
FtStart(size) == [size |-> size, pos |-> 0, fp |-> "none", conn |-> "new", out |-> <<>>, net |-> <<>>, got |-> <<>>,
                  complete |-> 0, fin |-> FALSE, misused |-> FALSE, late |-> FALSE, nofile |-> FALSE]
TransferInit ==
  \E kind \in {"ttcp", "download", "download2", "download3"}, tx \in {"muduo", "blocking"}, rx \in {"muduo", "blocking"},
     n \in TrNumbers, len \in TrLengths, size \in FtFiles :
    /\ kind = "ttcp" => size = Min(FtFiles)
    /\ kind # "ttcp" => tx = "muduo" /\ rx = "muduo" /\ n = Min(TrNumbers) /\ len = Min(TrLengths)
    /\ xf = [kind |-> kind, opt |-> [number |-> n, length |-> len], tx |-> TrSide(tx), rx |-> TrSide(rx),
             there |-> <<>>, back |-> <<>>, file |-> FtStart(size)]

-----------------------------------------------------------------------------
TrInt(x) == <<0, x>>
TrSession(opt) == TrInt(opt.number) \o TrInt(opt.length)
TrPayload(len) == TrInt(len) \o [i \in 1..len |-> 9]
TrWhole(in) == Len(in) >= 2

(* trans::onConnection, and the start of the blocking transmit.            *)
TrBegin ==
  /\ xf.kind = "ttcp" /\ ~xf.tx.begun
  /\ xf' = [xf EXCEPT !.tx = [@ EXCEPT !.begun = TRUE, !.number = xf.opt.number, !.length = xf.opt.length,
                                       !.count = 1, !.bytes = xf.opt.length,
                                       !.out = TrSession(xf.opt) \o TrPayload(xf.opt.length)]]
TrTransMessage_One(t) ==
  [t EXCEPT !.in = SubSeq(@, 3, Len(@)), !.out = @ \o TrPayload(t.length), !.count = @ + 1, !.bytes = @ + t.length,
            !.fin = t.count > t.number]
(* trans::onMessage, one acknowledgement.                                  *)
TrTransMessage(t) ==
  LET u == [t EXCEPT !.in = SubSeq(@, 3, Len(@))]
  IN IF t.in[2] = t.length /\ t.count < t.number
     THEN [u EXCEPT !.out = @ \o TrPayload(t.length), !.count = @ + 1, !.bytes = @ + t.length]
     ELSE [u EXCEPT !.fin = TRUE]
(* All that was read; the blocking transmit is the same loop over one      *)
(* acknowledgement at a time, and closes after the last.                   *)
RECURSIVE TrTransAll(_)
TrTransAll(t) == IF TrWhole(t.in) /\ ~t.fin THEN TrTransAll(TrTransMessage(t)) ELSE t

TrWaits_Header(r) == IF r.number = 0 /\ r.length = 0 THEN Len(r.in) < 4 ELSE ~TrWhole(r.in)
(* receiving::onMessage, one round of its loop: the session first, then    *)
(* whole payloads; TrWaits is its break for more bytes.                    *)
TrWaits(r) == IF r.number = 0 /\ r.length = 0 THEN Len(r.in) < 4
              ELSE ~TrWhole(r.in) \/ (r.in[2] = r.length /\ Len(r.in) < r.length + 2)
TrReceiveMessage(r) ==
  IF r.number = 0 /\ r.length = 0
  THEN [r EXCEPT !.number = r.in[2], !.length = r.in[4], !.in = SubSeq(@, 5, Len(@))]
  ELSE IF r.in[2] # r.length THEN [r EXCEPT !.fin = TRUE]
  ELSE [r EXCEPT !.in = SubSeq(@, r.length + 3, Len(@)), !.out = @ \o TrInt(r.length),
                 !.count = @ + 1, !.bytes = @ + r.length, !.fin = r.count + 1 >= r.number]
(* All that was read; the blocking receive reads a session, then payload   *)
(* after payload.                                                          *)
RECURSIVE TrReceiveAll(_)
TrReceiveAll(r) == IF r.fin \/ TrWaits(r) THEN r ELSE TrReceiveAll(TrReceiveMessage(r))

(* write_n, or the output buffer of a TcpConnection, in pieces.            *)
TrWrite == /\ xf.kind = "ttcp"
           /\ \/ \E n \in 1..Min({Len(xf.tx.out), TrRoom - Len(xf.there)}) :
                   xf' = [xf EXCEPT !.tx.out = SubSeq(@, n + 1, Len(@)), !.there = @ \o SubSeq(xf.tx.out, 1, n)]
              \/ \E n \in 1..Min({Len(xf.rx.out), TrRoom - Len(xf.back)}) :
                   xf' = [xf EXCEPT !.rx.out = SubSeq(@, n + 1, Len(@)), !.back = @ \o SubSeq(xf.rx.out, 1, n)]
(* read_n takes its bytes in pieces too, and what it waits for is whole    *)
(* when the loop goes on; it reads no more than that.                      *)
TrReads(side, n) == side.kind = "muduo" \/ (side.out = <<>> /\ n = 1)
TrTransRead == /\ xf.kind = "ttcp" /\ ~xf.tx.gone
               /\ \E n \in 1..Len(xf.back) :
                    /\ TrReads(xf.tx, n)
                    /\ xf' = [xf EXCEPT !.back = SubSeq(@, n + 1, Len(@)),
                                        !.tx = TrTransAll([@ EXCEPT !.in = @ \o SubSeq(xf.back, 1, n)])]
TrReceiveRead == /\ xf.kind = "ttcp" /\ ~xf.rx.gone
                 /\ \E n \in 1..Len(xf.there) :
                      /\ TrReads(xf.rx, n)
                      /\ xf' = [xf EXCEPT !.there = SubSeq(@, n + 1, Len(@)),
                                          !.rx = TrReceiveAll([@ EXCEPT !.in = @ \o SubSeq(xf.there, 1, n)])]
(* Both sides are through: the connection goes down, the loops quit.       *)
TrDown == /\ xf.kind = "ttcp" /\ xf.tx.fin /\ xf.rx.fin /\ xf.rx.out = <<>> /\ ~xf.tx.gone
          /\ xf' = [xf EXCEPT !.tx.gone = TRUE, !.rx.gone = TRUE]

-----------------------------------------------------------------------------
FtOn == xf.kind # "ttcp"
FtSet(f) == xf' = [xf EXCEPT !.file = f]
FtRead(f, n) == [i \in 1..Min({n, f.size - f.pos}) |-> f.pos + i]
(* All is written: onWriteComplete is queued, if the server has one.       *)
FtWritten(f) == IF xf.kind = "download" THEN f ELSE [f EXCEPT !.complete = @ + 1]
FtSend(f, data) == IF f.conn # "up" THEN f
                   ELSE IF data = <<>> /\ f.out = <<>> THEN FtWritten(f)
                   ELSE [f EXCEPT !.out = @ \o data, !.pos = @ + Len(data)]
(* TcpConnection::shutdown *)
FtShutdown(f) == IF f.conn # "up" THEN f ELSE [f EXCEPT !.conn = "closing", !.fin = f.out = <<>>]

FtConnected_All(f) == FtShutdown(FtSend([f EXCEPT !.conn = "up", !.fp = "closed"], FtRead(f, FtBuf)))
(* onConnection of download.cc: readFile reads it all.                     *)
FtConnected(f) == FtShutdown(FtSend([f EXCEPT !.conn = "up", !.fp = "closed"], FtRead(f, f.size)))
(* onConnection of download2.cc and download3.cc.                          *)
FtConnectedOpen(f) == FtSend([f EXCEPT !.conn = "up", !.fp = "open"], FtRead(f, FtBuf))
FtUp == /\ FtOn /\ xf.file.conn = "new"
        /\ \/ FtSet(IF xf.kind = "download" THEN FtConnected(xf.file) ELSE FtConnectedOpen(xf.file))
           \/ FtSet(FtShutdown([xf.file EXCEPT !.conn = "up", !.fp = "closed", !.nofile = TRUE]))

(* The connection writes; write-complete is queued when all is written.    *)
FtWrite == /\ FtOn /\ xf.file.conn \in {"up", "closing"}
           /\ \E n \in 1..Min({Len(xf.file.out), TrRoom - Len(xf.file.net)}) :
                LET f == [xf.file EXCEPT !.out = SubSeq(@, n + 1, Len(@)), !.net = @ \o SubSeq(xf.file.out, 1, n)]
                IN FtSet(IF f.out # <<>> THEN f
                         ELSE [FtWritten(f) EXCEPT !.fin = f.conn = "closing"])

(* fread, fclose on a FILE that was closed.                                *)
FtUse(f) == IF f.fp = "closed" THEN [f EXCEPT !.misused = TRUE] ELSE f
FtWriteComplete_Stops(kind, f) == FtShutdown([FtUse(f) EXCEPT !.complete = @ - 1])
(* onWriteComplete of download2.cc, which closes the file at its end, and  *)
(* of download3.cc, which leaves it to the last FilePtr.                   *)
FtWriteComplete(kind, f) ==
  LET g == [FtUse(f) EXCEPT !.complete = @ - 1]
      data == FtRead(f, FtBuf)
  IN IF data # <<>> THEN FtSend(g, data)
     ELSE FtShutdown(IF kind = "download2" THEN [g EXCEPT !.fp = "null"] ELSE g)
FtComplete == FtOn /\ xf.file.complete > 0 /\ FtSet(FtWriteComplete(xf.kind, xf.file))

FtPeer == /\ FtOn
          /\ \E n \in 1..Len(xf.file.net) :
               FtSet([xf.file EXCEPT !.net = SubSeq(@, n + 1, Len(@)), !.got = @ \o SubSeq(xf.file.net, 1, n)])
(* The connection goes down, at its end or before: onConnection of         *)
(* download2.cc closes a file that is still open; that of download3.cc is  *)
(* closed when the connection and its queued functors are gone.            *)
FtDown == /\ FtOn /\ xf.file.conn \in {"up", "closing"}
          /\ FtSet([xf.file EXCEPT !.conn = "down", !.out = <<>>, !.late = xf.file.complete > 0,
                                   !.fp = IF xf.kind = "download2" /\ @ = "open" THEN "closed" ELSE @])
FtGone == /\ FtOn /\ xf.file.conn = "down" /\ xf.file.complete = 0
          /\ FtSet([xf.file EXCEPT !.conn = "gone", !.fp = IF xf.kind = "download3" THEN "closed" ELSE @])

TransferNext == \/ TrBegin \/ TrWrite \/ TrTransRead \/ TrReceiveRead \/ TrDown
                \/ FtUp \/ FtWrite \/ FtComplete \/ FtPeer \/ FtDown \/ FtGone

-----------------------------------------------------------------------------
(* A ttcp session neither stalls nor miscounts, whatever pieces the bytes  *)
(* come in and whichever kind of socket is at either end: while it is not  *)
(* over some byte is on its way; at most one payload is not acknowledged;  *)
(* and at the end both sides have counted all payloads (ttcp.cc onMessage, *)
(* ttcp_blocking.cc).                                                      *)
TtcpWhole ==
  /\ (xf.tx.begun /\ ~xf.tx.fin) => xf.tx.out \o xf.there \o xf.rx.out \o xf.back # <<>>
  /\ xf.rx.count \in {xf.tx.count - 1, xf.tx.count}
  /\ xf.tx.gone => /\ xf.rx.count = xf.opt.number /\ xf.tx.count = xf.opt.number
                   /\ xf.tx.bytes = xf.rx.bytes /\ xf.rx.bytes = xf.opt.number * xf.opt.length
                   /\ xf.there = <<>>

(* The peer is sent the file, in order, and the end only after all of it;  *)
(* download2 and download3 hold one block at a time; a FILE is closed when *)
(* the connection is gone, and used after that only by download2, when the *)
(* connection went down with a write-complete queued (download*.cc).       *)
FilesWhole ==
  LET f == xf.file
  IN /\ f.got \o f.net = [i \in 1..Len(f.got \o f.net) |-> i]
     /\ (f.fin /\ ~f.nofile) => Len(f.got \o f.net) = f.size
     /\ xf.kind # "download" => Len(f.out) <= FtBuf /\ f.complete <= 1
     /\ f.conn = "gone" => f.fp # "open"
     /\ f.misused => xf.kind = "download2" /\ f.late

(* Transfers are as the comments above TtcpWhole and FilesWhole say.       *)
TransferSound == IF xf.kind = "ttcp" THEN TtcpWhole ELSE FilesWhole
=============================================================================
