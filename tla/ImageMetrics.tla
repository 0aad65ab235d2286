----------------------------- MODULE ImageMetrics -----------------------------
(***************************************************************************)
(* wvb_load_rgba_image and wvb_psnr (src/tools/wvb_measurements.py): a    *)
(* caller loads two raw RGBA frames of the same size, a reference and a   *)
(* decoded one, and compares them by PSNR.                                 *)
(*                                                                         *)
(* A file is its sequence of bytes.  An image is the uint8 array of shape *)
(* (height, width, 4), a function from <<y, x, channel>> to 0..255.  numpy *)
(* keeps uint8 through image1 - image2 and ** 2, so both wrap modulo 2^8  *)
(* before np.mean turns them into floats.  PSNR = 20 log10(255 / sqrt    *)
(* (mse)) is strictly decreasing in mse, so the result is kept as the    *)
(* mse, an exact [num, den], or Inf for the mse == 0 branch.               *)
(***************************************************************************)
EXTENDS Integers, Sequences, FiniteSets, FiniteSetsExt

CONSTANTS
  Width, Height,  \* the size the caller passes
  Files,          \* the byte sequences a file may hold
  Raised,         \* a call that raised ValueError
  Inf,            \* np.inf
  None

VARIABLES
  file,           \* file[i]: the bytes of the i-th path
  img,            \* img[i]: what wvb_load_rgba_image returned (None before)
  psnr            \* what wvb_psnr returned (None before)

vars == <<file, img, psnr>>

Byte == 0..255
Pixel == (0..(Height - 1)) \X (0..(Width - 1)) \X (0..3)

\* np.frombuffer(...).reshape((height, width, 4)): row-major order.
Reshape(bytes) == [p \in Pixel |-> bytes[(p[1] * Width + p[2]) * 4 + p[3] + 1]]

\* The whole function: the size check, the reshape of a copy, and the alpha
\* channel set to 255.
LoadRgbaImage(bytes) ==
  IF Len(bytes) # Width * Height * 4 THEN Raised
  ELSE [p \in Pixel |-> IF p[3] = 3 THEN 255 ELSE Reshape(bytes)[p]]

\* uint8 arithmetic: the result is taken modulo 2^8.
U8(x) == x % 256

\* mse = np.mean((image1 - image2) ** 2) on uint8 arrays.
Mse(a, b) ==
  [num |-> FoldSet(LAMBDA p, s : s + U8(U8(a[p] - b[p]) ^ 2), 0, Pixel),
   den |-> Cardinality(Pixel)]

\* if mse == 0: return np.inf, else the (decreasing) function of mse.
Psnr(a, b) == IF Mse(a, b).num = 0 THEN Inf ELSE Mse(a, b)

Loaded(i) == img[i] \notin {None, Raised}

Init ==
  /\ file \in [{1, 2} -> Files]
  /\ img = [i \in {1, 2} |-> None]
  /\ psnr = None

\* The caller loads the images in order; a raise ends the script.
LoadImage(i) ==
  /\ img[i] = None
  /\ \A j \in 1..(i - 1) : Loaded(j)
  /\ img' = [img EXCEPT ![i] = LoadRgbaImage(file[i])]
  /\ UNCHANGED <<file, psnr>>

PsnrCall ==
  /\ psnr = None
  /\ Loaded(1) /\ Loaded(2)
  /\ psnr' = Psnr(img[1], img[2])
  /\ UNCHANGED <<file, img>>

Next == (\E i \in {1, 2} : LoadImage(i)) \/ PsnrCall

Spec == Init /\ [][Next]_vars

-----------------------------------------------------------------------------
(* Properties                                                              *)

\* wvb_psnr answers np.inf, the PSNR of a perfect reconstruction, only for
\* two images that are equal pixel for pixel.
PsnrInfiniteOnlyForEqualImages == psnr = Inf => img[1] = img[2]

====
