---------------------------- MODULE VideoWindow ----------------------------
(***************************************************************************)
(* The picture that the video windows show (VideoWnd.cpp): videoCB, which  *)
(* a decoder calls on its own thread, and, on the thread of the user       *)
(* interface, OnPaint and the destructor, once the dialog has ended.       *)
(* m_bih, m_pInfo and m_pData are globals: the local and the remote window *)
(* have one picture between them, and nothing locks it.                    *)
(*                                                                         *)
(* A step is one access to a global.  A picture stands for its pixels; its *)
(* width and height decide how many bytes the decoder gives, and how many  *)
(* are drawn.  Misuse of memory ends the behaviour, except that each       *)
(* callback reads the four bytes behind m_bih.                             *)
(***************************************************************************)
EXTENDS Integers

CONSTANTS
  Decoders,          (* the threads that decode, each for a window of its  *)
                     (* own                                                *)
  Widths, Heights,   (* of the pictures                                    *)
  None               (* no picture                                         *)

ASSUME SizesAssumption ==
  Widths \subseteq Nat /\ Heights \subseteq Nat

Pictures == [of : Decoders, width : Widths, height : Heights]

(* The bytes of a BGR24 picture of the decoder, whose rows are not padded, *)
(* and those that StretchDIBits reads for a bitmap with 24 bits per pixel, *)
(* whose rows are multiples of 32 bits.  (What videoCB computes at         *)
(* VideoWnd.cpp:140, 4 * (24 * w + 31) / 32, is neither, and not used.)    *)
NumBytes(p) == 3 * p.width * p.height
RowBytes(w) == 4 * ((24 * w + 31) \div 32)
DibBytes(p) == RowBytes(p.width) * p.height

ASSUME NoneAssumption == None \notin Pictures

VARIABLES
  cb,         (* where each decoder is in videoCB, "out" of it             *)
  pic,        (* the picture that the decoder gave to it                   *)
  bih,        (* m_bih: the picture whose width and height it has          *)
  info,       (* m_pInfo: state of the block, and the header copied to it  *)
  data,       (* m_pData: state, length and content of the block           *)
  ui,         (* where the user interface is: "draw" in OnPaint, "closed"  *)
              (* after the dialog ended, or at a place of ~CVideoWnd       *)
  gone,       (* the decoders whose windows are or were being deleted      *)
  stale,      (* a block that OnPaint holds was deleted                    *)
  last,       (* history: the picture of the last videoCB that returned    *)
  crossed,    (* history: two of videoCB ran together                      *)
  torn,       (* history: OnPaint ran together with videoCB                *)
  late,       (* history: videoCB ran together with ~CVideoWnd or after it *)
  misuse      (* the misuses of memory met                                 *)

history == <<last, crossed, torn, late>>
vars == <<cb, pic, bih, info, data, ui, gone, stale, history, misuse>>

CbLabels == {"out", "header", "delInfo", "newInfo", "copyInfo",
             "delData", "newData", "copyData"}
UiLabels == {"out", "draw", "closed", "delInfo", "nullInfo", "delData", "nullData"}
Block    == {"null", "fresh", "set", "freed"}

Deleting == ui \in {"delInfo", "nullInfo", "delData", "nullData"}

(* What can go wrong with the blocks and the windows, and what in painting;*)
(* memcpy(m_pInfo, &m_bih, sizeof(BITMAPINFO)) always reads behind m_bih.  *)
BlockMisuses   == {"doubleDelete", "writeFreed", "overflow", "deadWindow"}
PainterMisuses == {"readFreed", "overread"}
Tolerated      == {"behindHeader"}

Lengths == {0} \cup {NumBytes(p) : p \in Pictures}

TypeOK ==
  /\ cb \in [Decoders -> CbLabels]
  /\ pic \in [Decoders -> Pictures \cup {None}]
  /\ \A d \in Decoders : cb[d] # "out" => pic[d] \in Pictures
  /\ bih \in Pictures \cup {None}
  /\ info \in [block : Block, hdr : Pictures \cup {None}]
  /\ data \in [block : Block, len : Lengths, of : Pictures \cup {None}]
  /\ ui \in UiLabels /\ gone \subseteq Decoders /\ stale \in BOOLEAN
  /\ last \in Pictures \cup {None}
  /\ crossed \in BOOLEAN /\ torn \in BOOLEAN /\ late \in BOOLEAN
  /\ misuse \subseteq BlockMisuses \cup PainterMisuses \cup Tolerated

Init ==
  /\ cb = [d \in Decoders |-> "out"] /\ pic = [d \in Decoders |-> None]
  /\ bih = None
  /\ info = [block |-> "null", hdr |-> None]
  /\ data = [block |-> "null", len |-> 0, of |-> None]
  /\ ui = "out" /\ gone = {} /\ stale = FALSE /\ last = None
  /\ crossed = FALSE /\ torn = FALSE /\ late = FALSE /\ misuse = {}

-----------------------------------------------------------------------------
(* videoCB of the window of decoder d                                      *)

Goes(d, from, to) == cb[d] = from /\ cb' = [cb EXCEPT ![d] = to]

Misused(what) ==
  /\ misuse' = misuse \cup {what}
  /\ UNCHANGED <<cb, pic, bih, info, data, ui, gone, stale>>

(* The decoder has a picture and calls its window, unless both are deleted.*)
Enter(d) ==
  \/ /\ Goes(d, "out", "header")
     /\ d \notin gone
     /\ \E w \in Widths, h \in Heights :
          pic' = [pic EXCEPT ![d] = [of |-> d, width |-> w, height |-> h]]
     /\ crossed' = (crossed \/ \E e \in Decoders : cb[e] # "out")
     /\ torn' = (torn \/ ui = "draw")
     /\ late' = (late \/ Deleting)
     /\ UNCHANGED <<bih, info, data, ui, gone, stale, last, misuse>>
  \/ /\ cb[d] = "out" /\ d \in gone
     /\ late' = TRUE
     /\ Misused("deadWindow") /\ UNCHANGED <<last, crossed, torn>>

(* m_bih is set before the test that returns for an empty picture.         *)
SetHeader(d) ==
  /\ cb[d] = "header"
  /\ bih' = pic[d]
  /\ \/ /\ pic[d].width > 0 /\ pic[d].height > 0
        /\ cb' = [cb EXCEPT ![d] = "delInfo"]
        /\ UNCHANGED pic
     \/ /\ pic[d].width = 0 \/ pic[d].height = 0
        /\ cb' = [cb EXCEPT ![d] = "out"]
        /\ pic' = [pic EXCEPT ![d] = None]
  /\ UNCHANGED <<info, data, ui, gone, stale, history, misuse>>

(* if (m_pInfo != NULL) delete m_pInfo: the pointer keeps its value.       *)
DeleteInfo(d) ==
  \/ /\ Goes(d, "delInfo", "newInfo")
     /\ info.block # "freed"
     /\ info' = [info EXCEPT !.block = IF @ = "null" THEN "null" ELSE "freed"]
     /\ stale' = (stale \/ (ui = "draw" /\ info.block # "null"))
     /\ UNCHANGED <<pic, bih, data, ui, gone, history, misuse>>
  \/ /\ cb[d] = "delInfo" /\ info.block = "freed"
     /\ Misused("doubleDelete") /\ UNCHANGED history

NewInfo(d) ==
  /\ Goes(d, "newInfo", "copyInfo")
  /\ info' = [block |-> "fresh", hdr |-> None]
  /\ UNCHANGED <<pic, bih, data, ui, gone, stale, history, misuse>>

CopyInfo(d) ==
  \/ /\ Goes(d, "copyInfo", "delData")
     /\ info.block # "freed"
     /\ info' = [block |-> "set", hdr |-> bih]
     /\ misuse' = misuse \cup {"behindHeader"}
     /\ UNCHANGED <<pic, bih, data, ui, gone, stale, history>>
  \/ /\ cb[d] = "copyInfo" /\ info.block = "freed"
     /\ Misused("writeFreed") /\ UNCHANGED history

DeleteData(d) ==
  \/ /\ Goes(d, "delData", "newData")
     /\ data.block # "freed"
     /\ data' = [data EXCEPT !.block = IF @ = "null" THEN "null" ELSE "freed"]
     /\ stale' = (stale \/ (ui = "draw" /\ data.block # "null"))
     /\ UNCHANGED <<pic, bih, info, ui, gone, history, misuse>>
  \/ /\ cb[d] = "delData" /\ data.block = "freed"
     /\ Misused("doubleDelete") /\ UNCHANGED history

(* Mutation: the block is allocated only if the pointer is NULL (the test  *)
(* that is commented out above the allocation).                            *)
NewDataIfNull(d) ==
  /\ Goes(d, "newData", "copyData")
  /\ data' = IF data.block # "null" THEN data
             ELSE [block |-> "fresh", len |-> NumBytes(pic[d]), of |-> None]
  /\ UNCHANGED <<pic, bih, info, ui, gone, stale, history, misuse>>

(* Mutation: the block is one byte too short.                              *)
NewDataShort(d) ==
  /\ Goes(d, "newData", "copyData")
  /\ data' = [block |-> "fresh", len |-> NumBytes(pic[d]) - 1, of |-> None]
  /\ UNCHANGED <<pic, bih, info, ui, gone, stale, history, misuse>>

NewData(d) ==
  /\ Goes(d, "newData", "copyData")
  /\ data' = [block |-> "fresh", len |-> NumBytes(pic[d]), of |-> None]
  /\ UNCHANGED <<pic, bih, info, ui, gone, stale, history, misuse>>

(* memcpy(m_pData, buff, len), Invalidate, and the return to the decoder.  *)
CopyData(d) ==
  \/ /\ Goes(d, "copyData", "out")
     /\ data.block # "freed" /\ NumBytes(pic[d]) <= data.len /\ d \notin gone
     /\ data' = [data EXCEPT !.block = "set", !.of = pic[d]]
     /\ last' = pic[d]
     /\ pic' = [pic EXCEPT ![d] = None]
     /\ UNCHANGED <<bih, info, ui, gone, stale, crossed, torn, late, misuse>>
  \/ /\ cb[d] = "copyData" /\ d \in gone
     /\ Misused("deadWindow") /\ UNCHANGED history
  \/ /\ cb[d] = "copyData" /\ data.block = "freed"
     /\ Misused("writeFreed") /\ UNCHANGED history
  \/ /\ cb[d] = "copyData" /\ data.block # "freed" /\ NumBytes(pic[d]) > data.len
     /\ Misused("overflow") /\ UNCHANGED history

VideoCB(d) ==
  \/ Enter(d) \/ SetHeader(d)
  \/ DeleteInfo(d) \/ NewInfo(d) \/ CopyInfo(d)
  \/ DeleteData(d) \/ NewData(d) \/ CopyData(d)

-----------------------------------------------------------------------------
(* OnPaint: nothing as long as one of the pointers is NULL (OnEraseBkgnd   *)
(* leaves a black background), else both are passed to OnDrawImage.        *)
PaintBegin ==
  /\ ui = "out" /\ info.block # "null" /\ data.block # "null"
  /\ ui' = "draw"
  /\ stale' = (info.block = "freed" \/ data.block = "freed")
  /\ torn' = (torn \/ \E d \in Decoders : cb[d] # "out")
  /\ UNCHANGED <<cb, pic, bih, info, data, gone, last, crossed, late, misuse>>

(* DrawDib: StretchDIBits reads as many bytes as the header says.          *)
Readable ==
  info.block = "set" /\ info.hdr # None /\ DibBytes(info.hdr) <= data.len

PaintEnd ==
  \/ /\ ui = "draw" /\ ~stale /\ Readable
     /\ ui' = "out"
     /\ UNCHANGED <<cb, pic, bih, info, data, gone, stale, history, misuse>>
  \/ /\ ui = "draw" /\ stale
     /\ Misused("readFreed") /\ UNCHANGED history
  \/ /\ ui = "draw" /\ ~stale /\ ~Readable
     /\ Misused("overread") /\ UNCHANGED history

OnPaint == PaintBegin \/ PaintEnd

-----------------------------------------------------------------------------
(* The end of the dialog: nothing is painted any more, and ~CsipclientDlg  *)
(* deletes one window after the other.  When it was cancelled, nobody has  *)
(* stopped the threads that decode.                                        *)
DialogEnds ==
  /\ ui = "out" /\ ui' = "closed"
  /\ UNCHANGED <<cb, pic, bih, info, data, gone, stale, history, misuse>>

(* ~CVideoWnd deletes the decoder of the window first.                     *)
DeleteDecoder(d) ==
  /\ ui = "closed" /\ ui' = "delInfo"
  /\ d \notin gone /\ gone' = gone \cup {d}
  /\ late' = (late \/ \E e \in Decoders : cb[e] # "out")
  /\ UNCHANGED <<cb, pic, bih, info, data, stale, last, crossed, torn, misuse>>

(* SAFE_DELETE of a block: if it is not NULL, delete it, then make it NULL.*)
EndInfo ==
  \/ /\ ui = "delInfo" /\ info.block # "freed"
     /\ ui' = "nullInfo"
     /\ info' = [info EXCEPT !.block = IF @ = "null" THEN "null" ELSE "freed"]
     /\ UNCHANGED <<cb, pic, bih, data, gone, stale, history, misuse>>
  \/ /\ ui = "delInfo" /\ info.block = "freed"
     /\ Misused("doubleDelete") /\ UNCHANGED history
  \/ /\ ui = "nullInfo" /\ ui' = "delData"
     /\ info' = [block |-> "null", hdr |-> None]
     /\ UNCHANGED <<cb, pic, bih, data, gone, stale, history, misuse>>

(* Mutation: the pointer to the pixels keeps its value.                    *)
EndDataKeepsPointer ==
  \/ /\ ui = "delData" /\ data.block # "freed"
     /\ ui' = "nullData"
     /\ data' = [data EXCEPT !.block = IF @ = "null" THEN "null" ELSE "freed"]
     /\ UNCHANGED <<cb, pic, bih, info, gone, stale, history, misuse>>
  \/ /\ ui = "delData" /\ data.block = "freed"
     /\ Misused("doubleDelete") /\ UNCHANGED history
  \/ /\ ui = "nullData" /\ ui' = "closed"
     /\ UNCHANGED <<cb, pic, bih, info, data, gone, stale, history, misuse>>

EndData ==
  \/ /\ ui = "delData" /\ data.block # "freed"
     /\ ui' = "nullData"
     /\ data' = [data EXCEPT !.block = IF @ = "null" THEN "null" ELSE "freed"]
     /\ UNCHANGED <<cb, pic, bih, info, gone, stale, history, misuse>>
  \/ /\ ui = "delData" /\ data.block = "freed"
     /\ Misused("doubleDelete") /\ UNCHANGED history
  \/ /\ ui = "nullData" /\ ui' = "closed"
     /\ data' = [block |-> "null", len |-> 0, of |-> None]
     /\ UNCHANGED <<cb, pic, bih, info, gone, stale, history, misuse>>

Destructor == (\E d \in Decoders : DeleteDecoder(d)) \/ EndInfo \/ EndData

Next ==
  /\ misuse \subseteq Tolerated
  /\ \/ \E d \in Decoders : VideoCB(d)
     \/ OnPaint
     \/ DialogEnds
     \/ Destructor

Spec == Init /\ [][Next]_vars

-----------------------------------------------------------------------------
(* Properties                                                              *)

(* As long as no two callbacks have run together, and none together with   *)
(* the deletion of a window or after that of its own, no block is deleted  *)
(* twice, used after its deletion or exceeded, whichever window changes    *)
(* the size of its pictures and whenever the windows are painted.  That    *)
(* every callback reads four bytes behind m_bih is the exception.          *)
WriterSafe == ~crossed /\ ~late => misuse \cap BlockMisuses = {}

(* As long as besides no painting has run together with a callback, the    *)
(* windows show the picture of the last callback before, and read no       *)
(* freed memory, and nothing behind the picture if its width is a multiple *)
(* of four: else the rows of the bitmap are longer than the decoder's.     *)
PainterSafe ==
  ~crossed /\ ~torn =>
    /\ "readFreed" \notin misuse
    /\ "overread" \in misuse => last.width % 4 # 0
    /\ ui = "draw" => /\ last # None /\ info = [block |-> "set", hdr |-> last]
                      /\ data.block = "set" /\ data.of = last

(* After the windows are deleted, so is the picture, also when a callback  *)
(* of one window came after the end of the other.                          *)
NothingLeft ==
  ~crossed /\ ~late /\ ui = "closed" /\ gone = Decoders =>
    info.block = "null" /\ data.block = "null"

(* Everything that the two windows can rely on while the decoders' frames  *)
(* come one at a time.                                                     *)
PictureSafe == WriterSafe /\ PainterSafe /\ NothingLeft
=============================================================================
