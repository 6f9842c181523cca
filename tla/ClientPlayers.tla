------------------------------ MODULE ClientPlayers ------------------------------
(***************************************************************************)
(* The programs that show frames in a window of their main thread:         *)
(* vMI_videoplayer (X11) through one buffer and an Expose event for each   *)
(* frame, vMI_winvideoplayer (OpenCV) through a queue of pictures.         *)
(***************************************************************************)
EXTENDS ClientFrames

CONSTANT MaxItems       \* bound: events, or pictures, that wait for the main thread

ASSUME PlayersAssumption == MaxItems \in Nat \ {0}

VARIABLES
  drawAt,               \* the main thread in the loop that shows frames
  g_mtx,                \* who holds it: 0, or "callback" or "main"
  g_xbuffer, g_frame_size,  \* the two halves of the buffer; the kind of frame it is for
  events,               \* Expose events in the queue of the window
  picture,              \* what the main thread has of a picture
  items,                \* g_q of the OpenCV player: its pictures
  g_channels,           \* its channels: how many it has of each input, and of no input
  g_cells               \* g_row and g_col, for so many channels; 0 until g_bInit

playerVars == <<drawAt, g_mtx, g_xbuffer, g_frame_size, events, picture, items, g_channels, g_cells>>

NoBuffer == << >>
Junk == <<None, None>>
Freed == [in |-> 0, kind |-> "freed", n |-> 0]      \* main draws from a buffer that was deleted

PlayersInit ==
  /\ drawAt = "tested" /\ g_mtx = "nobody" /\ g_xbuffer = NoBuffer /\ g_frame_size = "none" /\ events = 0
  /\ picture = None /\ items = << >> /\ g_channels = [h \in {0} \cup Inputs |-> 0]
  /\ g_cells = 0

keepsLibrary == UNCHANGED <<media, newH, number, watched, last, queues>>
notWin == UNCHANGED <<items, g_channels, g_cells>>

(***************************************************************************)
(* vMI_videoplayer.                                                        *)
(***************************************************************************)
Picture(i) == media[hFrame[i]]
CopiesOf(i) == IF IsVideo(Picture(i).kind) THEN "lock" ELSE "shown"

PlayerTick(i) ==
  /\ LET new == g_frame_size # Picture(i).kind \/ g_xbuffer = NoBuffer IN
     /\ Goes(i, "tick", IF new THEN "free" ELSE CopiesOf(i))
     /\ g_frame_size' = Picture(i).kind
  /\ keepsLibrary /\ notWin /\ UNCHANGED <<refs, hFrame, faults, drawAt, g_mtx, g_xbuffer, events, picture>>

\* The callback of another input makes the buffers again.
Remade(i) == \E j \in Inputs \ {i} : inAt[j] \in {"free", "alloc"}

\* For a frame of another format, audio too, the buffers are deleted and made again
\* without the mutex, while main may draw from them.  Two callbacks that do it together
\* may delete a buffer twice.
PlayerResizes(i) ==
  /\ \/ /\ Goes(i, "free", "alloc") /\ g_xbuffer' = NoBuffer
        /\ picture' = IF drawAt = "put" /\ g_xbuffer # NoBuffer THEN Freed ELSE picture
     \/ /\ Goes(i, "alloc", CopiesOf(i)) /\ UNCHANGED picture
        /\ g_xbuffer' = IF g_xbuffer = NoBuffer THEN Junk ELSE g_xbuffer
     \/ Goes(i, "free", "crash") /\ Remade(i) /\ UNCHANGED <<g_xbuffer, picture>>
  /\ keepsLibrary /\ notWin /\ UNCHANGED <<refs, hFrame, faults, drawAt, g_mtx, g_frame_size, events>>

\* Variant: the copy does not take the mutex.
MayCopyUnlocked == TRUE
MayCopy == g_mtx = "nobody"

\* The buffer is gone or made again, or g_frame_size is that of the frame of another
\* input: the copy may crash.
Unsafe(i) == g_xbuffer = NoBuffer \/ Remade(i) \/ g_frame_size # Picture(i).kind

\* The first half goes into the buffer there is, the second one where the first went;
\* without g_inBuffer there is no copy.
PlayerCopies(i) ==
  /\ \/ /\ Goes(i, "lock", "copy") /\ MayCopy /\ g_mtx' = "callback" /\ g_xbuffer # NoBuffer
        /\ g_xbuffer' = [g_xbuffer EXCEPT ![1] = Picture(i)] /\ UNCHANGED events
     \/ g_xbuffer = NoBuffer /\ Goes(i, "lock", "shown") /\ UNCHANGED <<g_mtx, g_xbuffer, events>>
     \/ Goes(i, "lock", "crash") /\ Unsafe(i) /\ MayCopy /\ UNCHANGED <<g_mtx, g_xbuffer, events>>
     \/ /\ Goes(i, "copy", "shown") /\ g_mtx' = "nobody"
        /\ LET there == g_xbuffer # NoBuffer /\ g_xbuffer[1] = Picture(i) IN
           g_xbuffer' = IF there THEN [g_xbuffer EXCEPT ![2] = Picture(i)] ELSE g_xbuffer
        /\ events' = IF events < MaxItems THEN events + 1 ELSE events
     \/ Goes(i, "copy", "crash") /\ Unsafe(i) /\ UNCHANGED <<g_mtx, g_xbuffer, events>>
  /\ keepsLibrary /\ notWin /\ UNCHANGED <<refs, hFrame, faults, drawAt, g_frame_size, picture>>

PlayerReleases(i) ==
  /\ Returns(i, "shown") /\ Releases(hFrame[i])
  /\ UNCHANGED <<newH, number, watched, last, faults, playerVars>>

VideoPlayer(i) ==
  program = "videoplayer" /\ (PlayerTick(i) \/ PlayerResizes(i) \/ PlayerCopies(i) \/ PlayerReleases(i))

\* processEvent: an Expose event is ignored as long as there is no buffer.
NextEvent ==
  /\ drawAt = "loop" /\ events > 0 /\ events' = events - 1
  /\ drawAt' = IF g_xbuffer = NoBuffer THEN "tested" ELSE "expose"
  /\ UNCHANGED <<frameVars, faults, g_mtx, g_xbuffer, g_frame_size, picture>> /\ notWin

Half(n) == IF g_xbuffer = NoBuffer THEN None ELSE g_xbuffer[n]

\* The image was drawn half from one frame and half from another.
Mixed == picture \notin {None, Freed} /\ Half(2) \notin {None, picture}

\* XCreateImage with the buffer and the size there are: no buffer, or a new size for the
\* old one, and XPutImage reads where nothing is.
DrawsFirst ==
  /\ drawAt = "expose" /\ g_mtx = "nobody" /\ g_mtx' = "main"
  /\ \/ g_xbuffer # NoBuffer /\ drawAt' = "put" /\ picture' = Half(1)
     \/ Remade(0) /\ drawAt' = "crash" /\ picture' = None
  /\ UNCHANGED faults

DrawsSecond ==
  /\ drawAt = "put" /\ drawAt' \in {"tested"} \cup (IF picture = Freed THEN {"crash"} ELSE {})
  /\ picture' = None /\ faults' = faults \cup (IF Mixed THEN {"torn"} ELSE {})

\* Variant: the mutex is not given back.
DrawsKept == DrawsFirst \/ (DrawsSecond /\ UNCHANGED g_mtx)
Draws == DrawsFirst \/ (DrawsSecond /\ g_mtx' = "nobody")

Expose == Draws /\ UNCHANGED <<frameVars, g_xbuffer, g_frame_size, events>> /\ notWin

(***************************************************************************)
(* vMI_winvideoplayer.                                                     *)
(***************************************************************************)
notX == UNCHANGED <<g_mtx, g_xbuffer, g_frame_size, events>>
keepsWindow == notX /\ UNCHANGED <<drawAt, picture>>

WinTick(i) ==
  /\ Goes(i, "tick", IF g_cells = 0 THEN "init" ELSE "queue")
  /\ keepsLibrary /\ keepsWindow /\ notWin /\ UNCHANGED <<refs, hFrame, faults>>

\* Another callback, or main, works with g_channels.
ChannelsUsed(i) == drawAt \in {"found", "update"} \/ \E j \in Inputs \ {i} : inAt[j] = "init"

\* The grid for n channels; two inputs have no more than six.
Cells(n) == CHOOSE cells \in {1, 2, 4, 6} : cells >= n /\ \A c \in {1, 2, 4, 6} : c >= n => cells <= c
Count(channels) == FoldFunction(+, 0, channels)

\* init adds a channel for each input and counts the channels.  Nothing protects the
\* vector: meeting another user the channels may be lost, or the program crash.
WinInit(i) ==
  /\ \/ /\ Goes(i, "init", "queue")
        /\ \/ g_channels' = [h \in {0} \cup Inputs |-> g_channels[h] + IF h = 0 THEN 0 ELSE 1]
           \/ ChannelsUsed(i) /\ UNCHANGED g_channels
        /\ g_cells' = Cells(Count(g_channels'))
     \/ Goes(i, "init", "crash") /\ ChannelsUsed(i) /\ UNCHANGED <<g_channels, g_cells>>
  /\ keepsLibrary /\ keepsWindow /\ UNCHANGED <<refs, hFrame, faults, items>>

\* main is inside size or pop of the queue, with its mutex.
QueueIsHeld == drawAt \in {"size", "more", "pop"}

\* A BGR frame is queued as a view of the buffer of the frame, the others as a copy;
\* audio is not queued.
WinQueue(i) ==
  /\ Goes(i, "queue", "shown")
  /\ IF IsVideo(Picture(i).kind)
     THEN /\ ~QueueIsHeld
          /\ items' = IF Len(items) >= MaxItems THEN items
                      ELSE Append(items, [in |-> i, data |-> IF Picture(i).kind = "bgr" THEN "view" ELSE "copy"])
     ELSE UNCHANGED items
  /\ keepsLibrary /\ keepsWindow /\ UNCHANGED <<refs, hFrame, faults, g_channels, g_cells>>

\* The frame goes back to the list; a view of it stays in the queue, and shows what the
\* frame carries by then.
WinReleases(i) ==
  /\ Returns(i, "shown") /\ Releases(hFrame[i])
  /\ LET Gone(item) == IF item = [in |-> i, data |-> "view"] THEN [item EXCEPT !.data = "gone"] ELSE item IN
     items' = [n \in DOMAIN items |-> Gone(items[n])]
  /\ UNCHANGED <<newH, number, watched, last, faults, g_channels, g_cells>> /\ keepsWindow

WinPlayer(i) ==
  program = "winvideoplayer" /\ (WinTick(i) \/ WinInit(i) \/ WinQueue(i) \/ WinReleases(i))

\* The item the signal handler queues, of a handle no input has.
FakeItem == [in |-> 0, data |-> "copy"]

\* A turn of the loop of main takes the pictures there are, one by one, each into the
\* channel of its input.
WinTakes ==
  /\ \/ drawAt = "loop" /\ drawAt' = "size" /\ UNCHANGED <<picture, items>>
     \/ /\ drawAt = "size" /\ UNCHANGED <<picture, items>>
        /\ drawAt' = IF items # << >> THEN "more" ELSE "tested"
     \/ /\ drawAt = "more" /\ UNCHANGED <<picture, items>>
        /\ drawAt' = IF items # << >> THEN "pop" ELSE "update"
     \/ /\ drawAt = "pop" /\ drawAt' = "found"
        /\ picture' = [None EXCEPT !.in = Head(items).in] /\ items' = Tail(items)
  /\ UNCHANGED g_channels

WinFinds ==
  /\ drawAt = "found" /\ drawAt' = "more"
  /\ g_channels' = [g_channels EXCEPT ![picture.in] = IF @ = 0 THEN 1 ELSE @]
  /\ picture' = None /\ UNCHANGED items

\* update draws the channels into the grid.  The fake item gets a channel of its own, and
\* for a channel without a place in the grid OpenCV throws.
WinUpdates ==
  /\ drawAt = "update" /\ drawAt' = IF Count(g_channels) > g_cells THEN "crash" ELSE "tested"
  /\ UNCHANGED <<picture, items, g_channels>>

\* main uses the channels while a callback adds some.
WinMeets ==
  /\ drawAt \in {"found", "update"} /\ (\E i \in Inputs : inAt[i] = "init") /\ drawAt' = "crash"
  /\ picture' = None /\ UNCHANGED <<items, g_channels>>

WinShows ==
  /\ program = "winvideoplayer" /\ (WinTakes \/ WinFinds \/ WinUpdates \/ WinMeets)
  /\ notX /\ UNCHANGED <<frameVars, faults, g_cells>>

Shows(i) == VideoPlayer(i) \/ WinPlayer(i)
Window ==
  \/ program = "videoplayer" /\ (NextEvent \/ Expose)
  \/ WinShows
=============================================================================
