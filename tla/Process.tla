-------------------------------- MODULE Process --------------------------------
(***************************************************************************)
(* An FFmpeg process of a recording (internal/ffmpeg/process.go), the      *)
(* goroutine that writes its stdin and the one that finalizes the segment  *)
(* (recorder_segment.go audioWriter, finishEncoder).  stdinMu is held for  *)
(* as long as a write blocks on the full pipe.                             *)
(***************************************************************************)
EXTENDS Naturals, Sequences

CONSTANTS
  Buffer,    \* capacity of the audio channel, in chunks
  Pipe,      \* capacity of the pipe, in chunks
  MaxPCM     \* bound: chunks of the input

VARIABLES
  audioCh,   \* [chunks, open]
  writer,    \* audioWriter: [pc, chunk]; chunk 0 is silence
  stdinMu,   \* who holds it: free, writer
  stdin,     \* StartResult.stdin is set
  pipe,      \* chunks in the pipe
  proc,      \* reads, hangs, ok (exited without an error), failed
  cancelled, \* the process's context
  finish,    \* finishEncoder: where it is
  finalizeErr,
  hasAudio,  \* PCM of the input was written
  input, took, read   \* history: chunks that arrived, that the channel took, that FFmpeg read

vars == <<audioCh, writer, stdinMu, stdin, pipe, proc, cancelled, finish, finalizeErr, hasAudio, input, took, read>>
kept == <<input, took, read>>

Init ==
  /\ audioCh = [chunks |-> <<>>, open |-> TRUE] /\ writer = [pc |-> "idle", chunk |-> 0]
  /\ stdinMu = "free" /\ stdin = TRUE /\ pipe = <<>> /\ proc = "reads" /\ cancelled = FALSE
  /\ finish = "none" /\ finalizeErr = FALSE /\ hasAudio = FALSE
  /\ input = 0 /\ took = {} /\ read = {}

Exited == proc \in {"ok", "failed"}

-------------------------------------------------------------------------------
\* WriteAudio: a full channel drops the newest chunk.
WriteAudio ==
  /\ audioCh.open /\ input < MaxPCM /\ input' = input + 1
  /\ IF Len(audioCh.chunks) < Buffer
     THEN /\ audioCh' = [audioCh EXCEPT !.chunks = Append(@, input')]
          /\ took' = took \cup {input'}
     ELSE UNCHANGED <<audioCh, took>>
  /\ UNCHANGED <<writer, stdinMu, stdin, pipe, proc, cancelled, finish, finalizeErr, hasAudio, read>>

\* audioWriter: the next chunk, silence when none is queued, or the end.
Take ==
  /\ writer.pc = "idle" /\ audioCh.chunks # <<>>
  /\ writer' = [pc |-> "lock", chunk |-> Head(audioCh.chunks)]
  /\ audioCh' = [audioCh EXCEPT !.chunks = Tail(@)]
  /\ UNCHANGED <<stdinMu, stdin, pipe, proc, cancelled, finish, finalizeErr, hasAudio, kept>>

FillGap ==
  /\ writer.pc = "idle" /\ audioCh.chunks = <<>>
  /\ writer' = [pc |-> "lock", chunk |-> 0]
  /\ UNCHANGED <<audioCh, stdinMu, stdin, pipe, proc, cancelled, finish, finalizeErr, hasAudio, kept>>

ChannelEnds ==
  /\ writer.pc = "idle" /\ audioCh = [chunks |-> <<>>, open |-> FALSE]
  /\ writer' = [writer EXCEPT !.pc = "done"]
  /\ UNCHANGED <<audioCh, stdinMu, stdin, pipe, proc, cancelled, finish, finalizeErr, hasAudio, kept>>

\* WriteStdin takes the lock and finds stdin open or closed, ...
LockStdin ==
  /\ writer.pc = "lock" /\ stdinMu = "free"
  /\ IF stdin THEN writer' = [writer EXCEPT !.pc = "write"] /\ stdinMu' = "writer"
              ELSE writer' = [writer EXCEPT !.pc = "done"] /\ UNCHANGED stdinMu
  /\ UNCHANGED <<audioCh, stdin, pipe, proc, cancelled, finish, finalizeErr, hasAudio, kept>>

\* ... and blocks until the pipe has room ...
WriteStdin ==
  /\ writer.pc = "write" /\ ~Exited /\ Len(pipe) < Pipe
  /\ pipe' = Append(pipe, writer.chunk)
  /\ hasAudio' = (hasAudio \/ writer.chunk # 0)
  /\ writer' = [pc |-> "idle", chunk |-> 0] /\ stdinMu' = "free"
  /\ UNCHANGED <<audioCh, stdin, proc, cancelled, finish, finalizeErr, kept>>

\* ... or the process is gone.  Only an unexpected error is posted to the loop.
WriteFails ==
  /\ writer.pc = "write" /\ Exited
  /\ writer' = [writer EXCEPT !.pc = IF cancelled THEN "done" ELSE "failed"] /\ stdinMu' = "free"
  /\ UNCHANGED <<audioCh, stdin, pipe, proc, cancelled, finish, finalizeErr, hasAudio, kept>>

WriterDone == writer.pc \in {"done", "failed"}

-------------------------------------------------------------------------------
\* A stop or a rotation closes the channel and has the segment finalized; the loop
\* learns of a failed write and does the same with its error.
Retire(writeErr) ==
  /\ finish = "none" /\ (writeErr => writer.pc = "failed")
  /\ audioCh' = [audioCh EXCEPT !.open = FALSE]
  /\ finish' = (IF writeErr THEN "close" ELSE "wait") /\ finalizeErr' = writeErr
  /\ UNCHANGED <<writer, stdinMu, stdin, pipe, proc, cancelled, hasAudio, kept>>

\* Mutated form of WriterAwaited: stdin is closed while chunks are still queued.
WriterAwaitedNot == writer.pc # "write"

\* The writer has drained the channel: EOF can finalize the file.
WriterAwaited == WriterDone

AwaitWriter ==
  /\ finish = "wait" /\ WriterAwaited /\ finish' = "close"
  /\ UNCHANGED <<audioCh, writer, stdinMu, stdin, pipe, proc, cancelled, finalizeErr, hasAudio, kept>>

\* Mutated form of WriterStuck: stdin is closed instead, which needs the lock.
WriterStuckCloses ==
  /\ finish = "wait" /\ ~WriterDone /\ finish' = "close" /\ finalizeErr' = TRUE
  /\ UNCHANGED <<audioCh, writer, stdinMu, stdin, pipe, proc, cancelled, hasAudio, kept>>

\* writerDrainTimeout: the process is cancelled to break the pipe.
WriterStuck ==
  /\ finish = "wait" /\ ~WriterDone
  /\ cancelled' = TRUE /\ finish' = "drain" /\ finalizeErr' = TRUE
  /\ UNCHANGED <<audioCh, writer, stdinMu, stdin, pipe, proc, hasAudio, kept>>

\* CloseStdin waits for the lock.
CloseStdin ==
  /\ finish = "close" /\ stdinMu = "free"
  /\ stdin' = FALSE /\ finish' = "drain"
  /\ UNCHANGED <<audioCh, writer, stdinMu, pipe, proc, cancelled, finalizeErr, hasAudio, kept>>

\* drainProcess: WaitEscalating returns when the process has exited, ...
Drained ==
  /\ finish \in {"drain", "signalled", "killed"} /\ Exited
  /\ finish' = "join" /\ finalizeErr' = (finalizeErr \/ proc = "failed")
  /\ UNCHANGED <<audioCh, writer, stdinMu, stdin, pipe, proc, cancelled, hasAudio, kept>>

\* ... after a while sends a signal, which a hung process ignores, ...
Signal ==
  /\ finish = "drain" /\ ~Exited /\ finish' = "signalled"
  /\ proc' \in {proc, "failed"} /\ (proc = "reads" => proc' = "failed")
  /\ UNCHANGED <<audioCh, writer, stdinMu, stdin, pipe, cancelled, finalizeErr, hasAudio, kept>>

\* ... and later kills it.
Kill ==
  /\ finish = "signalled" /\ ~Exited /\ finish' = "killed" /\ proc' = "failed"
  /\ UNCHANGED <<audioCh, writer, stdinMu, stdin, pipe, cancelled, finalizeErr, hasAudio, kept>>

\* The writer is over; what is left in the channel is lost.
Join ==
  /\ finish = "join" /\ WriterDone /\ finish' = "end"
  /\ UNCHANGED <<audioCh, writer, stdinMu, stdin, pipe, proc, cancelled, finalizeErr, hasAudio, kept>>

-------------------------------------------------------------------------------
\* FFmpeg reads, stops reading, crashes, or exits at the end of its input.
Read ==
  /\ proc = "reads" /\ pipe # <<>>
  /\ pipe' = Tail(pipe) /\ read' = read \cup {Head(pipe)}
  /\ UNCHANGED <<audioCh, writer, stdinMu, stdin, proc, cancelled, finish, finalizeErr, hasAudio, input, took>>

Turns(to) ==
  /\ \/ proc = "reads" /\ to \in {"hangs", "failed"}
     \/ proc = "hangs" /\ to = "failed"
     \/ proc = "reads" /\ to = "ok" /\ ~stdin /\ pipe = <<>>
  /\ proc' = to
  /\ UNCHANGED <<audioCh, writer, stdinMu, stdin, pipe, cancelled, finish, finalizeErr, hasAudio, kept>>

Writer    == Take \/ ChannelEnds \/ LockStdin \/ WriteStdin \/ WriteFails
Finalizer == AwaitWriter \/ CloseStdin \/ Drained \/ Signal \/ Kill \/ Join

Next ==
  \/ WriteAudio \/ FillGap \/ Writer
  \/ \E b \in BOOLEAN : Retire(b)
  \/ Finalizer \/ WriterStuck
  \/ Read \/ \E to \in {"hangs", "failed", "ok"} : Turns(to)

Spec == Init /\ [][Next]_vars

\* The goroutines go on and the timeouts fire; a cancelled process is killed.
\* Nothing is assumed of FFmpeg itself.
Fairness ==
  /\ WF_vars(Writer) /\ WF_vars(Finalizer \/ WriterStuck)
  /\ WF_vars(cancelled /\ Turns("failed"))

FairSpec == Spec /\ Fairness

-------------------------------------------------------------------------------
(* Properties                                                              *)

\* finishEncoder: a segment finalized without an error holds every chunk its
\* channel took, and it counts as a recording if there was one.
FileComplete == finish = "end" /\ ~finalizeErr => took \subseteq read /\ (took # {} => hasAudio)

\* finishEncoder returns although FFmpeg may have stopped reading while the writer
\* holds stdinMu.
FinishEnds == finish # "none" ~> finish = "end"
===============================================================================
