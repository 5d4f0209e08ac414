------------------------- MODULE VideoWindowProofs -------------------------
(***************************************************************************)
(* PictureSafe of VideoWindow for all decoders, widths and heights.  It    *)
(* is not inductive: the proof follows the one decoder that is inside      *)
(* videoCB (as long as there are not two) through the function, and the    *)
(* user interface through ~CVideoWnd, and says at each point what the two  *)
(* blocks are.                                                             *)
(***************************************************************************)
EXTENDS VideoWindow, TLAPS

Quiet == \A d \in Decoders : cb[d] = "out"

(* Both blocks are still NULL, or both are of the picture of the last      *)
(* callback.                                                               *)
Consistent ==
  \/ info.block = "null" /\ data.block = "null"
  \/ /\ last # None
     /\ info = [block |-> "set", hdr |-> last]
     /\ data.block = "set" /\ data.of = last /\ data.len = NumBytes(last)

OneWriter ==
  \A d, e \in Decoders : cb[d] # "out" /\ cb[e] # "out" => d = e

(* The blocks, by the place of the decoder that is inside.                 *)
HeaderInv ==
  \A d \in Decoders :
    /\ cb[d] \in {"header", "delInfo"} => Consistent
    /\ cb[d] \in {"delInfo", "newInfo", "copyInfo"} => bih = pic[d]
    /\ cb[d] = "copyInfo" => info.block = "fresh"
    /\ cb[d] \in {"delData", "newData", "copyData"} =>
         info = [block |-> "set", hdr |-> pic[d]]

DataInv ==
  \A d \in Decoders :
    /\ cb[d] \in {"newInfo", "copyInfo", "delData"} => data.block # "freed"
    /\ cb[d] = "copyData" => data.block = "fresh" /\ data.len = NumBytes(pic[d])

(* The blocks, by the place of ~CVideoWnd; no callback meets it.           *)
EndInv ==
  /\ Deleting => Quiet
  /\ ui = "delInfo" => Consistent
  /\ ui = "nullInfo" => data.block # "freed"
  /\ ui = "delData" => info.block = "null" /\ data.block # "freed"
  /\ ui = "nullData" => info.block = "null"

(* Nor is one on its way when the last window is gone.                     *)
GoneInv ==
  /\ \A d \in Decoders : d \in gone => cb[d] = "out"
  /\ ui = "closed" /\ gone = Decoders => info.block = "null" /\ data.block = "null"

WriterInv ==
  ~crossed /\ ~late =>
    OneWriter /\ (Quiet /\ ~Deleting => Consistent) /\ HeaderInv /\ DataInv
              /\ EndInv /\ GoneInv

(* The windows live while they are painted, so no callback was late.       *)
AliveInv ==
  /\ ui \in {"out", "draw"} => gone = {} /\ ~late
  /\ (\E m \in misuse : m \in PainterMisuses) => ui = "draw"

PainterInv ==
  ~crossed /\ ~torn /\ ui = "draw" => Quiet /\ ~stale /\ info.block # "null"

MisuseInv ==
  /\ ~crossed /\ ~late => misuse \cap BlockMisuses = {}
  /\ ~crossed /\ ~torn =>
       /\ "readFreed" \notin misuse
       /\ "overread" \in misuse => last.width % 4 # 0

IInv == TypeOK /\ WriterInv /\ AliveInv /\ PainterInv /\ MisuseInv

-----------------------------------------------------------------------------
LEMMA PicturesHaveSizes ==
  \A p \in Pictures : p.width \in Nat /\ p.height \in Nat /\ NumBytes(p) \in Nat
<1> TAKE p \in Pictures
<1>1. p.width \in Widths /\ p.height \in Heights  BY DEF Pictures
<1>2. p.width \in Nat /\ p.height \in Nat  BY <1>1, SizesAssumption
<1>3. 3 * p.width \in Nat  BY <1>2
<1>4. \A m, n \in Nat : m * n \in Nat  OBVIOUS
<1>5. NumBytes(p) \in Nat  BY <1>2, <1>3, <1>4 DEF NumBytes
<1> QED BY <1>2, <1>5

(* A row whose width is a multiple of four needs no padding.               *)
LEMMA NoPadding ==
  ASSUME NEW p \in Pictures, p.width % 4 = 0
  PROVE  DibBytes(p) = NumBytes(p)
<1>1. RowBytes(p.width) = 3 * p.width
  <2> DEFINE w == p.width
  <2>1. w \in Nat /\ w % 4 = 0  BY PicturesHaveSizes
  <2> HIDE DEF w
  <2>2. 4 * ((24 * w + 31) \div 32) = 3 * w  BY <2>1
  <2> QED BY <2>2 DEF RowBytes, w
<1> QED BY <1>1 DEF DibBytes, NumBytes

LEMMA InitHolds == Init => IInv
<1> SUFFICES ASSUME Init PROVE IInv
  OBVIOUS
<1>1. TypeOK  BY DEF Init, TypeOK, CbLabels, UiLabels, Block, Lengths
<1>2. WriterInv
  BY DEF Init, WriterInv, OneWriter, Consistent, HeaderInv, DataInv, EndInv, GoneInv,
         Deleting
<1>3. AliveInv /\ PainterInv /\ MisuseInv
  BY DEF Init, AliveInv, PainterInv, MisuseInv, BlockMisuses, PainterMisuses
<1> QED BY <1>1, <1>2, <1>3 DEF IInv

(* IInv gives PictureSafe: whoever draws, draws the last picture.          *)
LEMMA IInvIsSafe == IInv => PictureSafe
<1> SUFFICES ASSUME IInv PROVE PictureSafe
  OBVIOUS
<1>1. WriterSafe  BY DEF IInv, MisuseInv, WriterSafe
<1>2. ASSUME ~crossed, ~torn, ui = "draw"
      PROVE  /\ last # None /\ info = [block |-> "set", hdr |-> last]
             /\ data.block = "set" /\ data.of = last
  <2>1. Consistent /\ info.block # "null"
    BY <1>2 DEF IInv, PainterInv, WriterInv, AliveInv, Deleting
  <2> QED BY <2>1 DEF Consistent
<1>3. PainterSafe  BY <1>2 DEF IInv, MisuseInv, PainterSafe
<1>4. NothingLeft  BY DEF IInv, WriterInv, GoneInv, NothingLeft
<1> QED BY <1>1, <1>3, <1>4 DEF PictureSafe

-----------------------------------------------------------------------------
(* Types                                                                   *)

LEMMA MisusedKeepsTypes ==
  ASSUME TypeOK, NEW what \in BlockMisuses \cup PainterMisuses, Misused(what),
         late' \in BOOLEAN, UNCHANGED <<last, crossed, torn>>
  PROVE  TypeOK'
  BY DEF TypeOK, Misused, Deleting

LEMMA CallbackKeepsTypes ==
  ASSUME TypeOK, NEW d \in Decoders, VideoCB(d)
  PROVE  TypeOK'
<1> USE DEF TypeOK, Goes, CbLabels, Block, history
<1>1. CASE Enter(d)
  <2>1. CASE d \in gone
    <3>1. late' = TRUE /\ Misused("deadWindow") /\ UNCHANGED <<last, crossed, torn>>
      BY <1>1, <2>1 DEF Enter
    <3> QED BY <3>1, MisusedKeepsTypes DEF BlockMisuses
  <2>2. CASE d \notin gone
    <3>1. PICK w \in Widths, h \in Heights :
             pic' = [pic EXCEPT ![d] = [of |-> d, width |-> w, height |-> h]]
      BY <1>1, <2>2 DEF Enter
    <3>2. [of |-> d, width |-> w, height |-> h] \in Pictures  BY DEF Pictures
    <3>3. cb' = [cb EXCEPT ![d] = "header"] /\ late' \in BOOLEAN
          /\ crossed' \in BOOLEAN /\ torn' \in BOOLEAN
          /\ UNCHANGED <<bih, info, data, ui, gone, stale, last, misuse>>
      BY <1>1, <2>2 DEF Enter, Deleting
    <3> QED BY <3>1, <3>2, <3>3
  <2> QED BY <2>1, <2>2
<1>2. CASE SetHeader(d)
  <2>1. pic[d] \in Pictures  BY <1>2 DEF SetHeader
  <2> QED BY <1>2, <2>1 DEF SetHeader
<1>3. CASE DeleteInfo(d)
  <2>1. CASE Misused("doubleDelete") /\ UNCHANGED history
    BY <2>1, MisusedKeepsTypes DEF BlockMisuses
  <2> QED BY <1>3, <2>1 DEF DeleteInfo
<1>4. CASE NewInfo(d)     BY <1>4 DEF NewInfo
<1>5. CASE CopyInfo(d)
  <2>1. CASE Misused("writeFreed") /\ UNCHANGED history
    BY <2>1, MisusedKeepsTypes DEF BlockMisuses
  <2> QED BY <1>5, <2>1 DEF CopyInfo, Tolerated
<1>6. CASE DeleteData(d)
  <2>1. CASE Misused("doubleDelete") /\ UNCHANGED history
    BY <2>1, MisusedKeepsTypes DEF BlockMisuses
  <2> QED BY <1>6, <2>1 DEF DeleteData
<1>7. CASE NewData(d)
  <2>1. NumBytes(pic[d]) \in Lengths
    BY <1>7 DEF NewData, Lengths
  <2> QED BY <1>7, <2>1 DEF NewData
<1>8. CASE CopyData(d)
  <2>1. pic[d] \in Pictures  BY <1>8 DEF CopyData
  <2>2. CASE /\ Misused("writeFreed") \/ Misused("overflow") \/ Misused("deadWindow")
             /\ UNCHANGED history
    BY <2>2, MisusedKeepsTypes DEF BlockMisuses
  <2>3. CASE /\ data.block # "freed"
             /\ cb' = [cb EXCEPT ![d] = "out"]
             /\ data' = [data EXCEPT !.block = "set", !.of = pic[d]]
             /\ last' = pic[d]
             /\ pic' = [pic EXCEPT ![d] = None]
             /\ UNCHANGED <<bih, info, ui, gone, stale, crossed, torn, late, misuse>>
    <3>1. data' \in [block : Block, len : Lengths, of : Pictures \cup {None}]
      BY <2>1, <2>3
    <3>2. \A e \in Decoders : cb'[e] # "out" => pic'[e] \in Pictures
      BY <2>3
    <3>3. cb' \in [Decoders -> CbLabels] /\ pic' \in [Decoders -> Pictures \cup {None}]
      BY <2>3
    <3> QED BY <2>1, <2>3, <3>1, <3>2, <3>3
  <2> QED BY <1>8, <2>2, <2>3 DEF CopyData
<1> QED BY <1>1, <1>2, <1>3, <1>4, <1>5, <1>6, <1>7, <1>8 DEF VideoCB

LEMMA PaintKeepsTypes ==
  ASSUME TypeOK, OnPaint
  PROVE  TypeOK'
<1>1. CASE PaintBegin  BY <1>1 DEF PaintBegin, TypeOK, UiLabels
<1>2. CASE PaintEnd
  <2>1. CASE (Misused("readFreed") \/ Misused("overread")) /\ UNCHANGED history
    BY <2>1, MisusedKeepsTypes DEF TypeOK, PainterMisuses, history
  <2> QED BY <1>2, <2>1 DEF PaintEnd, TypeOK, UiLabels, history
<1> QED BY <1>1, <1>2 DEF OnPaint

LEMMA EndKeepsTypes ==
  ASSUME TypeOK, DialogEnds \/ Destructor
  PROVE  TypeOK'
<1> USE DEF TypeOK, UiLabels, Block, history
<1>1. CASE DialogEnds  BY <1>1 DEF DialogEnds
<1>2. ASSUME NEW d \in Decoders, DeleteDecoder(d) PROVE TypeOK'
  BY <1>2 DEF DeleteDecoder
<1>3. CASE Misused("doubleDelete") /\ UNCHANGED history
  BY <1>3, MisusedKeepsTypes DEF BlockMisuses
<1>4. CASE EndInfo     BY <1>3, <1>4 DEF EndInfo
<1>5. CASE EndData     BY <1>3, <1>5 DEF EndData, Lengths
<1> QED BY <1>1, <1>2, <1>4, <1>5 DEF Destructor

-----------------------------------------------------------------------------
(* The writer                                                              *)

(* A callback that was early enough meets no misuse, and leaves the blocks *)
(* to the next one as it should.                                           *)
LEMMA CallbackKeepsWriterInv ==
  ASSUME IInv, NEW d \in Decoders, VideoCB(d), ~crossed', ~late'
  PROVE  WriterInv' /\ misuse' \cap BlockMisuses = {}
<1> USE DEF Goes, history
<1>1. /\ ~crossed /\ ~late /\ OneWriter /\ (Quiet /\ ~Deleting => Consistent)
      /\ HeaderInv /\ DataInv /\ EndInv /\ GoneInv /\ misuse \cap BlockMisuses = {}
  BY DEF VideoCB, Enter, SetHeader, DeleteInfo, NewInfo, CopyInfo, DeleteData, NewData,
         CopyData, IInv, TypeOK, WriterInv, MisuseInv
<1>2. /\ cb \in [Decoders -> CbLabels] /\ pic \in [Decoders -> Pictures \cup {None}]
      /\ \A e \in Decoders : cb[e] # "out" => pic[e] \in Pictures
      /\ info \in [block : Block, hdr : Pictures \cup {None}]
      /\ data \in [block : Block, len : Lengths, of : Pictures \cup {None}]
  BY DEF IInv, TypeOK
<1>3. CASE cb[d] = "out"
  <2>1. /\ Enter(d) /\ d \notin gone /\ Quiet /\ ~Deleting
        /\ cb' = [cb EXCEPT ![d] = "header"]
        /\ UNCHANGED <<bih, info, data, ui, gone, stale, last, misuse>>
    BY <1>3, <1>2 DEF VideoCB, Enter, SetHeader, DeleteInfo, NewInfo, CopyInfo,
       DeleteData, NewData, CopyData, Quiet
  <2>2. Consistent  BY <1>1, <2>1
  <2>3. \A e \in Decoders : cb'[e] # "out" => e = d  BY <1>2, <2>1 DEF Quiet
  <2>4. cb'[d] = "header"  BY <1>2, <2>1
  <2>5. OneWriter' /\ ~Quiet'  BY <2>3, <2>4 DEF OneWriter, Quiet
  <2>6. HeaderInv' /\ DataInv'
    BY <2>1, <2>2, <2>3, <2>4 DEF HeaderInv, DataInv, Consistent
  <2>7. EndInv' /\ GoneInv'
    BY <1>1, <2>1, <2>3 DEF EndInv, GoneInv, Deleting
  <2> QED BY <1>1, <2>1, <2>5, <2>6, <2>7 DEF WriterInv
<1>4. CASE cb[d] # "out"
  <2>1. \A e \in Decoders : e # d => cb[e] = "out"  BY <1>1, <1>4 DEF OneWriter
  <2>2. d \notin gone /\ ~Deleting /\ gone # Decoders
    BY <1>1, <1>4 DEF GoneInv, EndInv, Quiet
  <2>3. UNCHANGED <<ui, gone>> /\ EndInv' /\ GoneInv'
    <3>1. UNCHANGED <<ui, gone>>
      BY <1>4 DEF VideoCB, Enter, SetHeader, DeleteInfo, NewInfo, CopyInfo, DeleteData,
         NewData, CopyData, Misused
    <3>2. \A e \in Decoders : e # d => cb'[e] = cb[e]
      BY <1>2 DEF VideoCB, Enter, SetHeader, DeleteInfo, NewInfo, CopyInfo, DeleteData,
         NewData, CopyData, Misused
    <3> QED BY <2>1, <2>2, <3>1, <3>2 DEF EndInv, GoneInv, Deleting
  <2> USE DEF OneWriter, Quiet, Consistent, HeaderInv, DataInv
  <2>4. CASE SetHeader(d)   BY <1>1, <1>2, <2>1, <2>3, <2>4 DEF SetHeader, WriterInv
  <2>5. CASE DeleteInfo(d)
    BY <1>1, <1>2, <2>1, <2>3, <2>5 DEF DeleteInfo, WriterInv
  <2>6. CASE NewInfo(d)     BY <1>1, <1>2, <2>1, <2>3, <2>6 DEF NewInfo, WriterInv
  <2>7. CASE CopyInfo(d)
    BY <1>1, <1>2, <2>1, <2>3, <2>7 DEF CopyInfo, WriterInv, BlockMisuses
  <2>8. CASE DeleteData(d)
    BY <1>1, <1>2, <2>1, <2>3, <2>8 DEF DeleteData, WriterInv
  <2>9. CASE NewData(d)     BY <1>1, <1>2, <2>1, <2>3, <2>9 DEF NewData, WriterInv
  <2>10. CASE CopyData(d)
    <3>1. pic[d] \in Pictures /\ pic[d] # None /\ NumBytes(pic[d]) \in Nat
      BY <1>2, <1>4, PicturesHaveSizes, NoneAssumption
    <3>2. /\ info = [block |-> "set", hdr |-> pic[d]]
          /\ data.block = "fresh" /\ data.len = NumBytes(pic[d])
      BY <1>1, <2>10 DEF CopyData
    <3>3. data.block # "freed" /\ NumBytes(pic[d]) <= data.len
      BY <3>1, <3>2
    <3>4. /\ last' = pic[d] /\ info' = info /\ misuse' = misuse
          /\ data' = [data EXCEPT !.block = "set", !.of = pic[d]]
          /\ cb' = [cb EXCEPT ![d] = "out"]
      BY <2>2, <2>10, <3>1, <3>2, <3>3 DEF CopyData
    <3>5. data' = [block |-> "set", len |-> NumBytes(pic[d]), of |-> pic[d]]
      BY <1>2, <3>2, <3>4
    <3>6. Consistent'  BY <3>1, <3>2, <3>4, <3>5
    <3>7. \A e \in Decoders : cb'[e] = "out"  BY <1>2, <2>1, <3>4
    <3> QED BY <1>1, <2>3, <3>4, <3>6, <3>7 DEF WriterInv
  <2> QED BY <1>4, <2>4, <2>5, <2>6, <2>7, <2>8, <2>9, <2>10 DEF VideoCB, Enter
<1> QED BY <1>3, <1>4

(* A callback either is not seen by the painting, or has torn it.          *)
LEMMA CallbackKeepsPainterInv ==
  ASSUME IInv, misuse \subseteq Tolerated, NEW d \in Decoders, VideoCB(d)
  PROVE  PainterInv' /\ AliveInv' /\ misuse' \cap PainterMisuses = {}
<1>1. misuse' \cap PainterMisuses = {}
  BY DEF VideoCB, Enter, SetHeader, DeleteInfo, NewInfo, CopyInfo, DeleteData, NewData,
         CopyData, Misused, PainterMisuses, Tolerated
<1>2. AliveInv'
  <2>1. UNCHANGED <<ui, gone>>
    BY DEF VideoCB, Enter, SetHeader, DeleteInfo, NewInfo, CopyInfo, DeleteData, NewData,
           CopyData, Misused
  <2>2. ui \in {"out", "draw"} => ~late'
    BY DEF VideoCB, Enter, SetHeader, DeleteInfo, NewInfo, CopyInfo, DeleteData, NewData,
           CopyData, history, IInv, AliveInv, Deleting
  <2> QED BY <1>1, <2>1, <2>2 DEF IInv, AliveInv
<1>3. PainterInv'
  <2> USE DEF IInv, PainterInv, Quiet, Goes, history
  <2>1. CASE Enter(d)       BY <2>1 DEF Enter, Misused
  <2>2. CASE SetHeader(d)   BY <2>2 DEF SetHeader
  <2>3. CASE DeleteInfo(d)  BY <2>3 DEF DeleteInfo, Misused
  <2>4. CASE NewInfo(d)     BY <2>4 DEF NewInfo
  <2>5. CASE CopyInfo(d)    BY <2>5 DEF CopyInfo, Misused
  <2>6. CASE DeleteData(d)  BY <2>6 DEF DeleteData, Misused
  <2>7. CASE NewData(d)     BY <2>7 DEF NewData
  <2>8. CASE CopyData(d)    BY <2>8 DEF CopyData, Misused
  <2> QED BY <2>1, <2>2, <2>3, <2>4, <2>5, <2>6, <2>7, <2>8 DEF VideoCB
<1> QED BY <1>1, <1>2, <1>3

-----------------------------------------------------------------------------
(* The user interface                                                      *)

LEMMA PaintKeepsInv ==
  ASSUME IInv, misuse \subseteq Tolerated, OnPaint
  PROVE  WriterInv' /\ AliveInv' /\ PainterInv' /\ MisuseInv'
<1>1. UNCHANGED <<cb, pic, bih, info, data, gone, last, crossed, late>>
      /\ ui \in {"out", "draw"} /\ ui' \in {"out", "draw"}
  BY DEF OnPaint, PaintBegin, PaintEnd, Misused, history
<1>2. WriterInv'
  <2>1. OneWriter' = OneWriter /\ Quiet' = Quiet /\ Consistent' = Consistent
        /\ HeaderInv' = HeaderInv /\ DataInv' = DataInv
    BY <1>1 DEF OneWriter, Quiet, Consistent, HeaderInv, DataInv
  <2>2. EndInv' /\ ~Deleting /\ ~Deleting'  BY <1>1 DEF EndInv, Deleting
  <2>3. GoneInv => GoneInv'  BY <1>1 DEF GoneInv
  <2> QED BY <1>1, <2>1, <2>2, <2>3 DEF IInv, WriterInv
<1>3. AliveInv'
  BY <1>1 DEF IInv, AliveInv, OnPaint, PaintBegin, PaintEnd, Misused, Tolerated,
              PainterMisuses
<1>4. CASE PaintBegin
  <2>1. MisuseInv'
    BY <1>4 DEF PaintBegin, MisuseInv, BlockMisuses, Tolerated
  <2>2. ASSUME ~crossed', ~torn' PROVE Quiet /\ ~stale' /\ info'.block # "null"
    <3>1. ~crossed /\ ~late /\ Quiet /\ ~Deleting
      BY <1>4, <2>2 DEF PaintBegin, Quiet, IInv, AliveInv, Deleting
    <3>2. Consistent  BY <3>1 DEF IInv, WriterInv
    <3>3. info.block = "set" /\ data.block = "set"
      BY <1>4, <3>2 DEF PaintBegin, Consistent
    <3>4. stale' = (info.block = "freed" \/ data.block = "freed") /\ info' = info
      BY <1>4 DEF PaintBegin
    <3> QED BY <3>1, <3>3, <3>4
  <2>3. PainterInv'  BY <1>4, <2>2 DEF PaintBegin, PainterInv, Quiet
  <2> QED BY <1>2, <1>3, <2>1, <2>3
<1>5. CASE PaintEnd
  <2>1. ASSUME ~crossed, ~torn
        PROVE  ~stale /\ (last.width % 4 = 0 => Readable)
    <3>1. ui = "draw"  BY <1>5 DEF PaintEnd
    <3>2. Quiet /\ ~stale /\ info.block # "null"
      BY <2>1, <3>1 DEF IInv, PainterInv
    <3>3. Consistent
      BY <2>1, <3>1, <3>2 DEF IInv, WriterInv, AliveInv, Deleting
    <3>4. /\ last # None /\ info.block = "set" /\ info.hdr = last
          /\ data.len = NumBytes(last)
      BY <3>2, <3>3 DEF Consistent
    <3>5. last \in Pictures  BY <3>4 DEF IInv, TypeOK
    <3>6. ASSUME last.width % 4 = 0 PROVE DibBytes(info.hdr) <= data.len
      BY <3>4, <3>5, <3>6, NoPadding, PicturesHaveSizes
    <3> QED BY <3>2, <3>4, <3>6 DEF Readable
  <2>2. MisuseInv'
    BY <1>5, <2>1 DEF PaintEnd, Misused, MisuseInv, BlockMisuses, Tolerated, history
  <2>3. PainterInv'  BY <1>5 DEF PaintEnd, Misused, IInv, PainterInv, Quiet, history
  <2> QED BY <1>2, <1>3, <2>2, <2>3
<1> QED BY <1>4, <1>5 DEF OnPaint

(* ~CVideoWnd, which no callback meets, finds no deleted block.            *)
LEMMA EndKeepsWriterInv ==
  ASSUME IInv, DialogEnds \/ Destructor, ~crossed', ~late'
  PROVE  WriterInv' /\ misuse' \cap BlockMisuses = {}
<1> USE DEF history
<1>1. /\ ~crossed /\ ~late /\ OneWriter /\ (Quiet /\ ~Deleting => Consistent)
      /\ HeaderInv /\ DataInv /\ EndInv /\ GoneInv /\ misuse \cap BlockMisuses = {}
  BY DEF DialogEnds, Destructor, DeleteDecoder, EndInfo, EndData, IInv, TypeOK,
         WriterInv, MisuseInv
<1>2. info \in [block : Block, hdr : Pictures \cup {None}]
      /\ data \in [block : Block, len : Lengths, of : Pictures \cup {None}]
  BY DEF IInv, TypeOK
<1>3. UNCHANGED <<cb, pic, bih, last>> /\ OneWriter' /\ Quiet' = Quiet
  BY <1>1 DEF DialogEnds, Destructor, DeleteDecoder, EndInfo, EndData, Misused,
              OneWriter, Quiet
<1>4. CASE DialogEnds
  <2>1. /\ UNCHANGED <<info, data, gone, misuse>> /\ ui = "out" /\ ui' = "closed"
        /\ gone = {}
    BY <1>4 DEF DialogEnds, IInv, AliveInv
  <2>2. HeaderInv' /\ DataInv' /\ Consistent' = Consistent /\ EndInv'
        /\ ~Deleting /\ ~Deleting'
    BY <1>1, <1>3, <2>1 DEF HeaderInv, DataInv, Consistent, EndInv, Deleting
  <2>3. GoneInv'
    <3>1. ASSUME gone = Decoders PROVE info.block = "null" /\ data.block = "null"
      <4>1. Pictures = {} /\ last = None
        BY <2>1, <3>1 DEF IInv, TypeOK, Pictures
      <4>2. Consistent  BY <1>1, <2>1, <2>2, <3>1 DEF Quiet
      <4> QED BY <4>1, <4>2 DEF Consistent
    <3> QED BY <1>1, <1>3, <2>1, <3>1 DEF GoneInv
  <2> QED BY <1>1, <1>3, <2>1, <2>2, <2>3 DEF WriterInv
<1>5. ASSUME NEW d \in Decoders, DeleteDecoder(d)
      PROVE  WriterInv' /\ misuse' \cap BlockMisuses = {}
  <2>1. /\ UNCHANGED <<info, data, misuse>> /\ ui = "closed" /\ ui' = "delInfo"
        /\ Quiet
    BY <1>5 DEF DeleteDecoder, Quiet
  <2>2. Consistent  BY <1>1, <2>1 DEF Deleting
  <2>3. HeaderInv' /\ DataInv' /\ Consistent' = Consistent /\ EndInv'
        /\ GoneInv' /\ Deleting'
    BY <1>3, <2>1, <2>2 DEF HeaderInv, DataInv, Consistent, EndInv, GoneInv, Quiet,
       Deleting
  <2> QED BY <1>1, <1>3, <2>1, <2>3 DEF WriterInv
<1>6. CASE EndInfo \/ EndData
  <2>1. Deleting /\ Quiet /\ Quiet' /\ gone' = gone
    BY <1>1, <1>3, <1>6 DEF EndInfo, EndData, Deleting, EndInv, Misused
  <2>2. HeaderInv' /\ DataInv'  BY <2>1 DEF HeaderInv, DataInv, Quiet
  <2>3. CASE EndInfo
    <3>1. info.block # "freed" \/ ui # "delInfo"
      BY <1>1 DEF EndInv, Consistent
    <3>2. misuse' = misuse /\ data' = data /\ ui' \in {"nullInfo", "delData"}
      BY <2>3, <3>1 DEF EndInfo
    <3>3. EndInv'
      BY <1>1, <2>1, <2>3, <3>1 DEF EndInfo, EndInv, Consistent, Deleting
    <3>4. GoneInv' /\ Deleting'  BY <2>1, <3>2 DEF GoneInv, Quiet, Deleting
    <3> QED BY <1>1, <1>3, <2>2, <3>2, <3>3, <3>4 DEF WriterInv
  <2>4. CASE EndData
    <3>1. /\ data.block # "freed" \/ ui # "delData"
          /\ ui \in {"delData", "nullData"} => info.block = "null"
      BY <1>1 DEF EndInv
    <3>2. misuse' = misuse /\ info' = info /\ ui' \in {"nullData", "closed"}
          /\ ui \in {"delData", "nullData"}
      BY <2>4, <3>1 DEF EndData
    <3>3. ui' = "closed" => data'.block = "null"  BY <2>4, <3>1 DEF EndData
    <3>4. EndInv' /\ GoneInv'
      BY <2>1, <3>1, <3>2, <3>3 DEF EndInv, GoneInv, Quiet, Deleting
    <3>5. ~Deleting' => Consistent'
      BY <3>1, <3>2, <3>3 DEF Deleting, Consistent
    <3> QED BY <1>1, <1>3, <2>2, <3>2, <3>4, <3>5 DEF WriterInv
  <2> QED BY <1>6, <2>3, <2>4
<1> QED BY <1>4, <1>5, <1>6 DEF Destructor

LEMMA EndKeepsPainterInv ==
  ASSUME IInv, misuse \subseteq Tolerated, DialogEnds \/ Destructor
  PROVE  PainterInv' /\ AliveInv' /\ misuse' \cap PainterMisuses = {}
<1>1. misuse' \cap PainterMisuses = {}
  BY DEF DialogEnds, Destructor, DeleteDecoder, EndInfo, EndData, Misused, Tolerated,
         PainterMisuses
<1>2. ui' \notin {"out", "draw"}
  BY DEF DialogEnds, Destructor, DeleteDecoder, EndInfo, EndData, Misused
<1> QED BY <1>1, <1>2 DEF PainterInv, AliveInv

-----------------------------------------------------------------------------
LEMMA NextKeeps == IInv /\ [Next]_vars => IInv'
<1> SUFFICES ASSUME IInv, [Next]_vars PROVE IInv'
  OBVIOUS
<1>1. CASE UNCHANGED vars
  BY <1>1 DEF vars, history, IInv, TypeOK, WriterInv, OneWriter, Quiet, Consistent,
              HeaderInv, DataInv, EndInv, GoneInv, AliveInv, PainterInv, MisuseInv,
              Deleting
<1>2. CASE misuse \subseteq Tolerated /\ OnPaint
  BY <1>2, PaintKeepsTypes, PaintKeepsInv DEF IInv
<1>3. ASSUME TypeOK', PainterInv', AliveInv', misuse' \cap PainterMisuses = {},
             ~crossed' /\ ~late' => WriterInv' /\ misuse' \cap BlockMisuses = {}
      PROVE  IInv'
  BY <1>3 DEF IInv, WriterInv, MisuseInv, PainterMisuses
<1>4. ASSUME misuse \subseteq Tolerated, NEW d \in Decoders, VideoCB(d) PROVE IInv'
  <2>1. TypeOK'  BY <1>4, CallbackKeepsTypes DEF IInv
  <2>2. ~crossed' /\ ~late' => WriterInv' /\ misuse' \cap BlockMisuses = {}
    BY <1>4, CallbackKeepsWriterInv
  <2>3. PainterInv' /\ AliveInv' /\ misuse' \cap PainterMisuses = {}
    BY <1>4, CallbackKeepsPainterInv
  <2> QED BY <1>3, <2>1, <2>2, <2>3
<1>5. CASE misuse \subseteq Tolerated /\ (DialogEnds \/ Destructor)
  <2>1. TypeOK'  BY <1>5, EndKeepsTypes DEF IInv
  <2>2. ~crossed' /\ ~late' => WriterInv' /\ misuse' \cap BlockMisuses = {}
    BY <1>5, EndKeepsWriterInv
  <2>3. PainterInv' /\ AliveInv' /\ misuse' \cap PainterMisuses = {}
    BY <1>5, EndKeepsPainterInv
  <2> QED BY <1>3, <2>1, <2>2, <2>3
<1> QED BY <1>1, <1>2, <1>4, <1>5 DEF Next

LEMMA IInvHolds == Spec => []IInv
  BY InitHolds, NextKeeps, PTL DEF Spec

(* Every variable keeps its type, and a decoder in videoCB has a picture.  *)
THEOREM WindowTypesStay == Spec => []TypeOK
<1>1. IInv => TypeOK  BY DEF IInv
<1> QED BY <1>1, IInvHolds, PTL

(* For every set of decoders, widths and heights: as long as               *)
(* callbacks come one at a time, and none late, no block is misused by     *)
(* them or by ~CVideoWnd, and a painting that runs with none of them shows *)
(* the last picture; the deletion of the windows leaves no block behind.   *)
THEOREM PictureStaysSafe == Spec => []PictureSafe
  BY IInvHolds, IInvIsSafe, PTL
=============================================================================
