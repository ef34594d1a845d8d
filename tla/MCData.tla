------------------------------- MODULE MCData -------------------------------
(***************************************************************************)
(* Buffers, codecs, parsers and the programs around them, checked side by  *)
(* side: part says which of them this behaviour is about, and the others   *)
(* stay in their initial state.                                            *)
(***************************************************************************)
EXTENDS Buffer, NetBuffer, Http, Codec, Thrift, FastCgi, Solver, Sudoku, Dates, Logs, Fetch, WordCount, Transfer, Bench

VARIABLE part

dataVars == <<part, buf, seen, nb, http, cod, thr, fcg, sol, st, su, dt, lg, ft, wc, xf, bn>>

\* Two byte values, besides the fill value, tell the order of bytes apart.
MCBytes == 0 .. 2
MCStrings == {<<>>, <<1>>, <<1, 2>>, <<2, 2, 1>>}
MCLengths == 0 .. 3

\* The components that are not part stay as they are.
Only(p) == /\ part = p
           /\ UNCHANGED part
           /\ IF p = "buffer" THEN TRUE ELSE UNCHANGED <<buf, seen>>
           /\ IF p = "netbuffer" THEN TRUE ELSE UNCHANGED nb
           /\ IF p = "http" THEN TRUE ELSE UNCHANGED http
           /\ IF p = "codec" THEN TRUE ELSE UNCHANGED cod
           /\ IF p = "thrift" THEN TRUE ELSE UNCHANGED thr
           /\ IF p = "fastcgi" THEN TRUE ELSE UNCHANGED fcg
           /\ IF p = "solver" THEN TRUE ELSE UNCHANGED sol
           /\ IF p = "stat" THEN TRUE ELSE UNCHANGED st
           /\ IF p = "sudoku" THEN TRUE ELSE UNCHANGED su
           /\ IF p = "dates" THEN TRUE ELSE UNCHANGED dt
           /\ IF p = "logs" THEN TRUE ELSE UNCHANGED lg
           /\ IF p = "fetch" THEN TRUE ELSE UNCHANGED ft
           /\ IF p = "words" THEN TRUE ELSE UNCHANGED wc
           /\ IF p = "transfer" THEN TRUE ELSE UNCHANGED xf
           /\ IF p = "bench" THEN TRUE ELSE UNCHANGED bn

DataInit ==
  /\ part \in {"buffer", "netbuffer", "http", "codec", "thrift", "fastcgi", "solver", "stat", "sudoku", "dates",
               "logs", "fetch", "words", "transfer", "bench"}
  /\ Init /\ NbInit /\ StatInit /\ FcgiInit
  /\ HttpInit /\ (part # "http" => http.kind = "default")
  /\ CodecInit /\ (part # "codec" => cod.kind = "string")
  /\ ThrInit /\ (part # "thrift" => thr.pool)
  /\ SolInit /\ (part # "solver" => sol.board = CHOOSE p \in SolPuzzles : TRUE)
  /\ SuInit /\ (part # "sudoku" => su.kind = "basic" /\ su.client = "load")
  /\ DateInit /\ (part # "dates" => /\ dt.at.year = 1970
                                    /\ dt.zone = CHOOSE z \in ZoneFiles : TRUE)
  /\ LogInit /\ (part # "logs" => lg.kind = "small")
  /\ FetchInit /\ (part # "fetch" => ft.kind = "dns")
  /\ WcInit /\ (part # "words" => wc.file[1] = <<3>>)
  /\ TransferInit /\ (part # "transfer" => xf.kind = "download" /\ xf.file.size = 0)
  /\ BenchInit /\ (part # "bench" => bn.kind = "chat")

DataNext == \/ Only("buffer") /\ Next
            \/ Only("netbuffer") /\ NbNext
            \/ Only("http") /\ HttpNext
            \/ Only("codec") /\ CodecNext
            \/ Only("thrift") /\ ThrNext
            \/ Only("fastcgi") /\ FcgiNext
            \/ Only("solver") /\ SolNext
            \/ Only("stat") /\ StatNext
            \/ Only("sudoku") /\ SuNext
            \/ Only("dates") /\ DateNext
            \/ Only("logs") /\ LogNext
            \/ Only("fetch") /\ FetchNext
            \/ Only("words") /\ WcNext
            \/ Only("transfer") /\ TransferNext
            \/ Only("bench") /\ BenchNext

DataSpec == DataInit /\ [][DataNext]_dataVars

(* Requests and messages are taken apart and put together as they were     *)
(* meant, whatever pieces they come in, and answers stay with their        *)
(* requests (HttpContext, the codecs, ThriftServer, FastCgiCodec).         *)
ProtocolsSound == /\ part = "http" => HttpSound
                  /\ part = "codec" => CodecSound
                  /\ part = "thrift" => ThriftSound
                  /\ part = "fastcgi" => FastCgiSound

(* The sudoku programs answer what they are asked, their statistics and    *)
(* their solver are exact (server_*.cc, stat.h, percentile.h, sudoku.cc).  *)
SudokuProgramsSound ==
  (part = "sudoku" => SudokuSound) /\ (part = "stat" => StatSound) /\ (part = "solver" => SolverSound)

(* The byte buffer, dates and logs of the base library are sound           *)
(* (Buffer.h, Date.cc, TimeZone.cc, LogStream.cc, LogFile.cc).             *)
BaseSound == (part = "netbuffer" => NetBufferSound) /\ (part = "dates" => DatesSound) /\ (part = "logs" => LogsSound)

(* The clients of other systems and the load generators do what they were  *)
(* asked once, and know when they are through (Curl, Resolver, Hiredis,    *)
(* the benches, pingpong, loadtest).                                       *)
ClientsSound == (part = "fetch" => FetchSound) /\ (part = "bench" => BenchSound)

(* The word counter and the bulk transfers lose, repeat and mix up nothing *)
(* and do not stall (wordcount, ttcp, filetransfer).                       *)
TransfersSound == (part = "words" => WordCountSound) /\ (part = "transfer" => TransferSound)
=============================================================================
