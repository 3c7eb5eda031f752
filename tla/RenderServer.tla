---------------------------- MODULE RenderServer ----------------------------
(***************************************************************************)
(* The wgpu example (src/ipc_wgpu_example): render clients that send one   *)
(* frame after the other with Messenger::request over the UnixSocket       *)
(* transport, and a server whose handler stores the frame for the window.  *)
(*                                                                         *)
(* The handler stores the pixels under one lock and raises a flag under    *)
(* another one.  The event loop of the window takes the lock of the flag,  *)
(* and if it is up the other lock too: it uploads the pixels as the        *)
(* texture and lowers the flag.  It keeps the first lock while it renders. *)
(* Handlers exclude each other, since a connection holds the handler's     *)
(* mutex while it calls it.                                                *)
(* A client waits for the answer to a frame before it makes the next, and  *)
(* connects anew when a request fails.                                     *)
(***************************************************************************)
EXTENDS UnixChannel

CONSTANTS
  Programs,    \* how many processes of the client program there are
  Malformed,   \* frames of the wrong size
  Blank        \* what a new window shows

ASSUME ProgramsAssumption == Programs \in Nat
ASSUME FramesAssumption == Malformed \subseteq Messages /\ Blank \notin Messages

VARIABLES
  at,       \* at[r]: where the loop of client r is
  conn,     \* conn[r]: its connection, 0 before the first
  hearing,  \* hearing[r]: its messenger's receiver task runs
  handler,  \* the connection whose handler is called, and the locks it has had
  pixels,   \* shared_pixels
  flag,     \* new_frame_available
  drawing,  \* what the event loop holds: nothing, the flag, the pixels too,
            \* or the flag while it renders
  texture   \* what the window shows

program == <<at, conn, hearing>>
window  == <<handler, pixels, flag, drawing, texture>>
rvars   == <<vars, program, window>>

Renderers == 1..Programs

NoHandler == [conn |-> 0, step |-> 0]

RInit ==
  /\ Init
  /\ at = [r \in Renderers |-> "connect"]
  /\ conn = [r \in Renderers |-> 0]
  /\ hearing = [r \in Renderers |-> FALSE]
  /\ handler = NoHandler
  /\ pixels = Blank /\ texture = Blank
  /\ flag = FALSE /\ drawing = "none"

-----------------------------------------------------------------------------
(* The client program.                                                     *)

Goto(r, place) == at' = [at EXCEPT ![r] = place]

\* connect_messenger is tried until it succeeds, and starts a receiver task.
\* The programs are alike: number them in the order of their first connection.
Join(r) ==
  /\ at[r] = "connect" /\ \A q \in 1..(r - 1) : conn[q] # 0
  /\ \E c \in Conns : Connect(c) /\ conn' = [conn EXCEPT ![r] = c]
  /\ hearing' = [hearing EXCEPT ![r] = TRUE]
  /\ Goto(r, "ready")
  /\ UNCHANGED window

NextFrame(r, m) ==
  /\ at[r] = "ready"
  /\ BeginSend(conn[r], m)
  /\ Goto(r, "sending")
  /\ UNCHANGED <<conn, hearing, window>>

\* A request whose send fails returns, and the client connects anew.
SendFrame(r) ==
  /\ at[r] = "sending"
  /\ \/ Write(conn[r]) /\ Goto(r, IF wr'[conn[r]] = <<>> THEN "waiting" ELSE "sending")
     \/ WriteFails(conn[r]) /\ Goto(r, "connect")
  /\ UNCHANGED <<conn, hearing, window>>

\* The receiver task hands the answer to the request; it passes over the frames
\* that are broadcast back.
Hearing(r, unsolicited) ==
  LET c == conn[r]
      answered == got'[c] # got[c] /\ IsReply(got'[c][Len(got'[c])])
  IN  /\ hearing[r]
      /\ ReceivePart(c) \/ Receive(c)
      /\ Goto(r, IF answered THEN "ready" ELSE at[r])
      /\ hearing' = [hearing EXCEPT ![r] = unsolicited \/ answered \/ got' = got]
      /\ UNCHANGED <<conn, window>>

HearAnswers(r) == Hearing(r, FALSE)
Hear(r) == Hearing(r, TRUE)

\* The end of the stream is an error, which ends the task.
Deaf(r) ==
  /\ hearing[r] /\ task[conn[r]] = "ended" /\ NoEnd(down[conn[r]])
  /\ hearing' = [hearing EXCEPT ![r] = FALSE]
  /\ UNCHANGED <<vars, at, conn, window>>

-----------------------------------------------------------------------------
(* The server program.                                                     *)

FlagFirst == <<"flag", "pixels">>
LockOrder == <<"pixels", "flag">>

\* The handler has read a whole request and stores the frame under one lock and
\* announces it under the other.
StoreFrame(c) ==
  /\ handler.conn = c \/ handler = NoHandler
  /\ handler.step < 2
  /\ \E k \in DOMAIN up[c] :
       LET m == up[c][k].item[2]
       IN  /\ LineRead(c, k) /\ IsWhole(c, k)
           /\ m \notin Malformed
           /\ \/ /\ LockOrder[handler.step + 1] = "pixels" /\ drawing # "pixels"
                 /\ pixels' = m /\ UNCHANGED flag
              \/ /\ LockOrder[handler.step + 1] = "flag" /\ drawing = "none"
                 /\ flag' = TRUE /\ UNCHANGED pixels
  /\ handler' = [conn |-> c, step |-> handler.step + 1]
  /\ UNCHANGED <<vars, program, drawing, texture>>

\* It returns the answer; a frame of the wrong size is answered by default.
Answered(c) ==
  /\ \/ handler = [conn |-> c, step |-> 2]
     \/ /\ handler = NoHandler
        /\ \E k \in DOMAIN up[c] : EndsAt(up[c], k) /\ up[c][k].item[2] \in Malformed
  /\ HandleRequest(c)
  /\ handler' = NoHandler
  /\ UNCHANGED <<program, pixels, flag, drawing, texture>>

Others(c) == handler.conn # c /\ WithoutRequest(c) /\ UNCHANGED <<program, window>>

\* RedrawRequested takes the lock of the flag and looks; it keeps it to the end.
Look ==
  /\ drawing = "none" /\ flag
  /\ drawing' = "flag"
  /\ UNCHANGED <<vars, program, handler, pixels, flag, texture>>

Skip ==
  /\ drawing = "none" /\ ~flag
  /\ drawing' = "rendering"
  /\ UNCHANGED <<vars, program, handler, pixels, flag, texture>>

UploadAs(shown) ==
  /\ drawing = "flag" /\ flag
  /\ drawing' = "pixels"
  /\ texture' = shown
  /\ UNCHANGED <<vars, program, handler, pixels, flag>>

UploadOrSkip == UploadAs(IF handler = NoHandler THEN pixels ELSE texture)
Upload == UploadAs(pixels)

\* The flag is lowered, and the lock of the pixels goes with its block.
Drawn ==
  /\ drawing = "pixels"
  /\ drawing' = "rendering" /\ flag' = FALSE
  /\ UNCHANGED <<vars, program, handler, pixels, texture>>

Rendered ==
  /\ drawing = "rendering"
  /\ drawing' = "none"
  /\ UNCHANGED <<vars, program, handler, pixels, flag, texture>>

\* The transport accepts connections, and a new server starts.
Accepts == Accepting /\ UNCHANGED <<program, window>>
Restarts == Start /\ UNCHANGED <<program, window>>

Dies ==
  /\ Crash
  /\ handler' = NoHandler
  /\ pixels' = Blank /\ texture' = Blank
  /\ flag' = FALSE /\ drawing' = "none"
  /\ UNCHANGED program

-----------------------------------------------------------------------------
ServeFrames(c) == StoreFrame(c) \/ Answered(c) \/ Others(c)
Draw == Look \/ Skip \/ Upload \/ Drawn \/ Rendered

RNext ==
  \/ \E r \in Renderers :
       \/ Join(r) \/ (\E m \in Messages : NextFrame(r, m)) \/ SendFrame(r)
       \/ Hear(r) \/ Deaf(r)
  \/ \E c \in Conns : ServeFrames(c)
  \/ Draw \/ Accepts \/ Restarts \/ Dies

RSpec == RInit /\ [][RNext]_rvars

\* The tasks of both programs run, and the window is redrawn all the time.  The
\* handler gets a lock it waits for, although the event loop comes back for it
\* again and again: it is let in at one of the times the lock is free.
RFairness ==
  /\ \A r \in Renderers : WF_rvars(SendFrame(r)) /\ WF_rvars(Hear(r))
  /\ \A c \in Conns : WF_rvars(ServeFrames(c))
  /\ SF_rvars(\E c \in Conns : StoreFrame(c))
  /\ WF_rvars(Draw) /\ WF_rvars(Accepts)

RFairSpec == RSpec /\ RFairness

-----------------------------------------------------------------------------
(* Properties.                                                             *)

\* When the flag is down and nobody is between the two locks, the window shows the
\* frame that was stored last: none is overwritten by an older one or forgotten.
Fresh == ~flag /\ handler.step # 1 => texture = pixels

\* The handler is called with the frames of a program in the order in which it
\* made them and without a gap: it waits for the answer to each, so that after a
\* frame that was lost it sends none, and the exceptions UnixChannel makes are none
\* here.  The answers come in that order, each before the frame is broadcast back.
FramesOrdered ==
  /\ \A c \in Conns : /\ Len(served[c]) <= Len(sent[c])
                      /\ \A i \in DOMAIN served[c] : served[c][i] = sent[c][i]
  /\ AnswersFirst

\* A frame is shown, unless another one is stored before it is.
FrameShown == \A m \in Messages : pixels = m ~> texture = m \/ pixels # m

\* A request is answered, and the client goes on, unless the frame it sent was
\* cut by a broadcast, or the server died: then nothing ends the request.
FrameAnswered ==
  \A r \in Renderers : at[r] = "waiting" ~> at[r] # "waiting" \/ Damaged(conn[r]) \/ conn[r] \in crashed
=============================================================================
