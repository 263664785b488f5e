-------------------------- MODULE CompositorProofs --------------------------
(* Proofs about the compositor, for pictures, slots and canvases of any size *)
(* in pixels, any number of slots and overlays, any events.                  *)
EXTENDS Compositor, SequenceTheorems, TLAPS

(* Sizes of pictures are what libvips' rounding makes of an exact ratio n/d. *)
LEMMA Quotient ==
  ASSUME NEW n \in Nat, NEW d \in Positive
  PROVE  n \div d \in Nat /\ d * (n \div d) <= n /\ n < d * (n \div d) + d
BY DEF Positive

LEMMA MaxOfTwo ==
  ASSUME NEW a \in Int, NEW b \in Int
  PROVE  Max({a, b}) = IF a >= b THEN a ELSE b
<1>1. PICK m \in {a, b} : m = IF a >= b THEN a ELSE b
  OBVIOUS
<1>2. \A y \in {a, b} : m >= y
  BY <1>1
<1>3. \A x \in {a, b} : (\A y \in {a, b} : x >= y) => x = m
  BY <1>1
<1> QED BY <1>1, <1>2, <1>3 DEF Max

(* It is monotonic, hits whole pixels, and is at most half a pixel off where *)
(* there is a pixel at all.                                                  *)
LEMMA ScaledBounds ==
  ASSUME NEW a \in Positive, NEW n \in Positive, NEW d \in Positive,
         NEW r, r = Scaled(a, <<n, d>>)
  PROVE  /\ r \in Positive
         /\ \A k \in Positive : k * d <= a * n => k <= r
         /\ \A k \in Positive : a * n <= k * d => r <= k
         /\ d <= a * n => 2 * (r * d) <= 2 * (a * n) + d /\ 2 * (a * n) < 2 * (r * d) + d
<1>p. a \in Nat /\ a > 0 /\ n \in Nat /\ n > 0 /\ d \in Nat /\ d > 0
  BY DEF Positive
<1> DEFINE c == a * n
           q == (2 * c + d) \div (2 * d)
<1>c. c \in Nat
  BY <1>p
<1>1. /\ q \in Nat /\ (2 * d) * q <= 2 * c + d /\ 2 * c + d < (2 * d) * q + 2 * d
  <2>1. 2 * c + d \in Nat /\ 2 * d \in Positive
    BY <1>p, <1>c DEF Positive
  <2> HIDE DEF c
  <2> QED BY <2>1, Quotient
<1>2. r = IF 1 >= q THEN 1 ELSE q
  <2>1. 2 * a * n + d = 2 * c + d
    BY <1>p
  <2>2. r = Max({1, q})
    BY <2>1 DEF Scaled
  <2> HIDE DEF q
  <2> QED BY <1>1, <2>2, MaxOfTwo
<1> HIDE DEF c, q
<1>3. ASSUME NEW k \in Positive, k * d <= c
      PROVE  k <= q
  <2>1. k \in Nat /\ k > 0
    BY DEF Positive
  <2>2. CASE k > q
    <3>1. (q + 1) * d <= k * d
      BY <1>1, <1>p, <2>1, <2>2
    <3>2. (2 * d) * q + 2 * d <= 2 * c
      BY <1>1, <1>p, <1>c, <1>3, <2>1, <3>1
    <3> QED BY <1>1, <1>p, <1>c, <3>2
  <2> QED BY <1>1, <2>1, <2>2
<1>4. ASSUME NEW k \in Positive, c <= k * d
      PROVE  q <= k
  <2>1. k \in Nat /\ k > 0
    BY DEF Positive
  <2>2. CASE q > k
    <3>1. (k + 1) * d <= q * d
      BY <1>1, <1>p, <2>1, <2>2
    <3>2. 2 * c + 2 * d <= (2 * d) * q
      BY <1>1, <1>p, <1>c, <1>4, <2>1, <3>1
    <3> QED BY <1>1, <1>p, <1>c, <3>2
  <2> QED BY <1>1, <2>1, <2>2
<1>5. r \in Positive /\ r >= q /\ \A k \in Positive : q <= k => r <= k
  BY <1>1, <1>2 DEF Positive
<1>6. ASSUME d <= c
      PROVE  2 * (r * d) <= 2 * c + d /\ 2 * c < 2 * (r * d) + d
  <2>1. 1 <= q
    <3>1. 1 \in Positive /\ 1 * d <= c
      BY <1>6, <1>p DEF Positive
    <3> QED BY <1>3, <3>1
  <2>2. r = q
    BY <1>1, <1>2, <2>1
  <2>3. (2 * d) * q = 2 * (r * d)
    BY <1>1, <1>p, <2>2
  <2> QED BY <1>1, <1>c, <1>p, <2>3
<1>7. \A k \in Positive : k * d <= c => k <= r
  BY <1>1, <1>3, <1>5 DEF Positive
<1>8. \A k \in Positive : c <= k * d => r <= k
  BY <1>4, <1>5
<1> QED BY <1>5, <1>6, <1>7, <1>8 DEF c

LEMMA HalfOf ==
  ASSUME NEW n \in Nat
  PROVE  Half(n) \in Nat /\ Half(n) <= n /\ 2 * Half(n) \in n - 1 .. n + 1
BY DEF Half

(* An a by b picture scaled by w / a.                                        *)
LEMMA ScaledToWidth ==
  ASSUME NEW a \in Positive, NEW b \in Positive, NEW w \in Positive
  PROVE  /\ Scaled(a, <<w, a>>) = w
         /\ Scaled(b, <<w, a>>) \in Positive
         /\ \A h \in Positive : h * a <= b * w => h <= Scaled(b, <<w, a>>)
         /\ \A h \in Positive : b * w <= h * a => Scaled(b, <<w, a>>) <= h
<1>1. a \in Int /\ b \in Int /\ w \in Int
  BY DEF Positive
<1>2. Scaled(a, <<w, a>>) = w
  <2>1. w * a <= a * w /\ a * w <= w * a
    BY <1>1
  <2>2. w <= Scaled(a, <<w, a>>) /\ Scaled(a, <<w, a>>) <= w /\ Scaled(a, <<w, a>>) \in Positive
    BY <2>1, ScaledBounds
  <2> QED BY <1>1, <2>2 DEF Positive
<1> QED BY <1>2, ScaledBounds

(* The cut of a cover crop stays in the picture and takes its middle.        *)
LEMMA CropFits ==
  ASSUME NEW a \in Positive, NEW b \in Positive, NEW w \in Positive, NEW h \in Positive,
         h * a <= b * w, NEW r, r = Scaled(b, <<w, a>>), NEW c, c = Half(r - h)
  PROVE  /\ r \in Positive /\ c \in Nat /\ c + h <= r
         /\ Middle(h + 2 * c, b * w, a)
<1>p. a \in Nat /\ a > 0 /\ b \in Nat /\ b > 0 /\ w \in Nat /\ w > 0 /\ h \in Nat /\ h > 0
  BY DEF Positive
<1>1. r \in Positive /\ r \in Nat /\ h <= r
  BY ScaledToWidth DEF Positive
<1>2. c \in Nat /\ c <= r - h /\ 2 * c \in (r - h) - 1 .. (r - h) + 1
  <2>1. r - h \in Nat
    BY <1>1, <1>p
  <2> QED BY <2>1, HalfOf
<1>3. 2 * (r * a) <= 2 * (b * w) + a /\ 2 * (b * w) < 2 * (r * a) + a
  <2>1. a <= b * w
    <3>1. 1 * a <= h * a
      BY <1>p
    <3> QED BY <1>p, <3>1
  <2> QED BY <2>1, ScaledBounds
<1> DEFINE m == b * w
           x == h + 2 * c
<1>4. m \in Nat /\ x \in Int /\ r - 1 <= x /\ x <= r + 1
  BY <1>1, <1>2, <1>p
<1>5. (r - 1) * a <= x * a /\ x * a <= (r + 1) * a
  BY <1>1, <1>4, <1>p
<1>6. r * a - a <= x * a /\ x * a <= r * a + a /\ r * a \in Int /\ x * a \in Int
  BY <1>1, <1>4, <1>5, <1>p
<1>7. x * a - m >= 1 - 2 * a /\ x * a - m <= 2 * a - 1
  <2> HIDE DEF x, m
  <2>1. 2 * (r * a) <= 2 * m + a /\ 2 * m < 2 * (r * a) + a
    BY <1>3 DEF m
  <2> QED BY <1>4, <1>6, <2>1, <1>p
<1>8. Middle(x, m, a)
  <2> HIDE DEF x, m
  <2> QED BY <1>4, <1>6, <1>7, <1>p DEF Middle
<1> QED BY <1>1, <1>2, <1>8, <1>p
-----------------------------------------------------------------------------
(* What is pasted for a picture fits its slot.                               *)
Layers == [what : {"slot", "image", "logo", "text"}, of : Positive,
           x : Int, y : Int, w : Positive, h : Positive, cut : Nat \X Nat]

Fitting(l, i, s, p) ==
  LET left == l.x - s.x  right == (s.x + s.w) - (l.x + l.w)
      top == l.y - s.y  bottom == (s.y + s.h) - (l.y + l.h)
  IN /\ l.of = i
     /\ left >= 0 /\ right >= 0 /\ top >= 0 /\ bottom >= 0
     /\ Near(left, right) /\ Near(top, bottom)
     /\ s.fit = "contain" => (left = 0 /\ right = 0) \/ (top = 0 /\ bottom = 0)
     /\ s.fit # "contain" => {left, right, top, bottom} = {0}
     /\ s.fit = "cover" =>
          \/ l.cut[1] = 0 /\ Middle(s.h + 2 * l.cut[2], p[2] * s.w, p[1])
          \/ l.cut[2] = 0 /\ Middle(s.w + 2 * l.cut[1], p[1] * s.h, p[2])

LEMMA LayerType ==
  ASSUME NEW what \in {"slot", "image", "logo", "text"}, NEW i \in Positive,
         NEW x \in Int, NEW y \in Int, NEW size \in Sizes, NEW cut \in Nat \X Nat
  PROVE  Layer(what, i, x, y, size, cut) \in Layers
BY DEF Layer, Layers, Sizes

LEMMA FillFits ==
  ASSUME NEW i \in Positive, NEW s \in Slots, s.fit = "fill", NEW p
  PROVE  \E l \in Layers : Fill(i, s) = {l} /\ l.what = "slot" /\ Fitting(l, i, s, p)
<1>1. /\ s.x \in Int /\ s.y \in Int /\ s.w \in Positive /\ s.h \in Positive
      /\ s.w \in Int /\ s.h \in Int /\ Whole \in Nat \X Nat /\ <<s.w, s.h>> \in Sizes
  BY DEF Slots, Positive, Whole, Sizes
<1>2. PICK l \in Layers : l = Layer("slot", i, s.x, s.y, <<s.w, s.h>>, Whole)
  BY <1>1, LayerType
<1>3. /\ l.what = "slot" /\ l.of = i /\ l.x = s.x /\ l.y = s.y /\ l.w = s.w /\ l.h = s.h
  BY <1>2 DEF Layer
<1>4. Fitting(l, i, s, p)
  BY <1>1, <1>3 DEF Fitting, Near
<1> QED BY <1>2, <1>3, <1>4 DEF Fill

LEMMA CoverFits ==
  ASSUME NEW i \in Positive, NEW s \in Slots, s.fit = "cover", NEW p \in Sizes
  PROVE  \E l \in Layers : Cover(i, p, s) = {l} /\ l.what = "slot" /\ Fitting(l, i, s, p)
<1>1. /\ s.x \in Int /\ s.y \in Int /\ s.w \in Positive /\ s.h \in Positive
      /\ s.w \in Int /\ s.h \in Int /\ <<s.w, s.h>> \in Sizes
      /\ p[1] \in Positive /\ p[2] \in Positive /\ p[1] \in Int /\ p[2] \in Int
  BY DEF Slots, Positive, Sizes
<1> DEFINE scale == CoverScale(p, s)
           resized == Resize(p, scale, scale)
           left == Half(resized[1] - s.w)
           top == Half(resized[2] - s.h)
<1>0. Half(0) = 0
  BY HalfOf
<1>2. /\ left \in Nat /\ left + s.w <= resized[1] /\ top \in Nat /\ top + s.h <= resized[2]
      /\ \/ left = 0 /\ Middle(s.h + 2 * top, p[2] * s.w, p[1])
         \/ top = 0 /\ Middle(s.w + 2 * left, p[1] * s.h, p[2])
  <2>1. CASE s.w * p[2] < s.h * p[1]
    <3>1. scale = <<s.h, p[2]>>
      BY <2>1 DEF CoverScale, Less, WidthScale, HeightScale
    <3> HIDE DEF scale
    <3>2. resized[2] = s.h /\ resized[1] = Scaled(p[1], <<s.h, p[2]>>)
      BY <1>1, <3>1, ScaledToWidth DEF Resize
    <3> HIDE DEF resized
    <3>3. top = 0
      BY <1>0, <1>1, <3>2
    <3>4. s.w * p[2] <= p[1] * s.h
      BY <1>1, <2>1
    <3>5. /\ left \in Nat /\ left + s.w <= resized[1]
          /\ Middle(s.w + 2 * left, p[1] * s.h, p[2])
      BY <1>1, <3>2, <3>4, CropFits
    <3> QED BY <1>1, <3>2, <3>3, <3>5
  <2>2. CASE ~(s.w * p[2] < s.h * p[1])
    <3>1. scale = <<s.w, p[1]>>
      BY <2>2 DEF CoverScale, Less, WidthScale, HeightScale
    <3> HIDE DEF scale
    <3>2. resized[1] = s.w /\ resized[2] = Scaled(p[2], <<s.w, p[1]>>)
      BY <1>1, <3>1, ScaledToWidth DEF Resize
    <3> HIDE DEF resized
    <3>3. left = 0
      BY <1>0, <1>1, <3>2
    <3>4. s.h * p[1] <= p[2] * s.w
      BY <1>1, <2>2
    <3>5. /\ top \in Nat /\ top + s.h <= resized[2]
          /\ Middle(s.h + 2 * top, p[2] * s.w, p[1])
      BY <1>1, <3>2, <3>4, CropFits
    <3> QED BY <1>1, <3>2, <3>3, <3>5
  <2> QED BY <2>1, <2>2
<1>3. Cover(i, p, s) = {Layer("slot", i, s.x, s.y, <<s.w, s.h>>, <<left, top>>)}
  BY <1>2 DEF Cover
<1> HIDE DEF left, top
<1>4. PICK l \in Layers : l = Layer("slot", i, s.x, s.y, <<s.w, s.h>>, <<left, top>>)
  BY <1>1, <1>2, LayerType
<1>5. /\ l.what = "slot" /\ l.of = i /\ l.x = s.x /\ l.y = s.y /\ l.w = s.w /\ l.h = s.h
      /\ l.cut = <<left, top>>
  BY <1>4 DEF Layer
<1>6. Fitting(l, i, s, p)
  BY <1>1, <1>2, <1>5 DEF Fitting, Near
<1> QED BY <1>3, <1>4, <1>5, <1>6

LEMMA ContainFits ==
  ASSUME NEW i \in Positive, NEW s \in Slots, s.fit = "contain", NEW p \in Sizes
  PROVE  \E l \in Layers : Contain(i, p, s) = {l} /\ l.what = "slot" /\ Fitting(l, i, s, p)
<1>1. /\ s.x \in Int /\ s.y \in Int /\ s.w \in Positive /\ s.h \in Positive
      /\ s.w \in Int /\ s.h \in Int /\ Whole \in Nat \X Nat
      /\ p[1] \in Positive /\ p[2] \in Positive /\ p[1] \in Int /\ p[2] \in Int
  BY DEF Slots, Positive, Sizes, Whole
<1> DEFINE scale == ContainScale(p, s)
           resized == Resize(p, scale, scale)
           left == Half(s.w - resized[1])
           top == Half(s.h - resized[2])
<1>0. Half(0) = 0
  BY HalfOf
<1>2. /\ resized \in Sizes /\ resized[1] \in Int /\ resized[2] \in Int
      /\ left \in Nat /\ left <= s.w - resized[1] /\ top \in Nat /\ top <= s.h - resized[2]
      /\ 2 * left \in (s.w - resized[1]) - 1 .. (s.w - resized[1]) + 1
      /\ 2 * top \in (s.h - resized[2]) - 1 .. (s.h - resized[2]) + 1
      /\ s.w = resized[1] \/ s.h = resized[2]
  <2>1. /\ resized \in Sizes /\ resized[1] \in Positive /\ resized[2] \in Positive
        /\ resized[1] <= s.w /\ resized[2] <= s.h
        /\ s.w = resized[1] \/ s.h = resized[2]
    <3>1. CASE s.w * p[2] < s.h * p[1]
      <4>1. scale = <<s.w, p[1]>>
        BY <3>1 DEF ContainScale, Less, WidthScale, HeightScale
      <4>2. p[2] * s.w <= s.h * p[1]
        BY <1>1, <3>1
      <4> HIDE DEF scale
      <4>3. /\ Scaled(p[1], scale) = s.w
            /\ Scaled(p[2], scale) \in Positive /\ Scaled(p[2], scale) <= s.h
        BY <1>1, <4>1, <4>2, ScaledToWidth
      <4>4. resized = <<s.w, Scaled(p[2], scale)>>
        BY <4>3 DEF Resize
      <4> QED BY <1>1, <4>3, <4>4 DEF Sizes
    <3>2. CASE ~(s.w * p[2] < s.h * p[1])
      <4>1. scale = <<s.h, p[2]>>
        BY <3>2 DEF ContainScale, Less, WidthScale, HeightScale
      <4>2. p[1] * s.h <= s.w * p[2]
        BY <1>1, <3>2
      <4> HIDE DEF scale
      <4>3. /\ Scaled(p[2], scale) = s.h
            /\ Scaled(p[1], scale) \in Positive /\ Scaled(p[1], scale) <= s.w
        BY <1>1, <4>1, <4>2, ScaledToWidth
      <4>4. resized = <<Scaled(p[1], scale), s.h>>
        BY <4>3 DEF Resize
      <4> QED BY <1>1, <4>3, <4>4 DEF Sizes
    <3> QED BY <3>1, <3>2
  <2> HIDE DEF resized
  <2>2. s.w - resized[1] \in Nat /\ s.h - resized[2] \in Nat
    BY <1>1, <2>1 DEF Positive
  <2>3. resized[1] \in Int /\ resized[2] \in Int
    BY <2>1 DEF Positive
  <2> QED BY <2>1, <2>2, <2>3, HalfOf
<1>3. Contain(i, p, s) = {Layer("slot", i, s.x + left, s.y + top, resized, Whole)}
  BY DEF Contain
<1> HIDE DEF resized, left, top
<1>4. PICK l \in Layers : l = Layer("slot", i, s.x + left, s.y + top, resized, Whole)
  BY <1>1, <1>2, LayerType
<1>5. /\ l.what = "slot" /\ l.of = i /\ l.x = s.x + left /\ l.y = s.y + top
      /\ l.w = resized[1] /\ l.h = resized[2]
  BY <1>4 DEF Layer
<1>6. /\ s.w = resized[1] => left = 0
      /\ s.h = resized[2] => top = 0
  BY <1>1, <1>2
<1>7. /\ l.x - s.x = left /\ (s.x + s.w) - (l.x + l.w) = s.w - resized[1] - left
      /\ l.y - s.y = top /\ (s.y + s.h) - (l.y + l.h) = s.h - resized[2] - top
  <2>1. /\ (s.x + left) - s.x = left /\ (s.y + top) - s.y = top
        /\ (s.x + s.w) - ((s.x + left) + resized[1]) = s.w - resized[1] - left
        /\ (s.y + s.h) - ((s.y + top) + resized[2]) = s.h - resized[2] - top
    BY <1>1, <1>2
  <2> QED BY <1>5, <2>1
<1>8. /\ left - (s.w - resized[1] - left) \in -1 .. 1 /\ s.w - resized[1] - left >= 0
      /\ top - (s.h - resized[2] - top) \in -1 .. 1 /\ s.h - resized[2] - top >= 0
  BY <1>1, <1>2
<1>9. Fitting(l, i, s, p)
  BY <1>1, <1>2, <1>5, <1>6, <1>7, <1>8 DEF Fitting, Near
<1> QED BY <1>3, <1>4, <1>5, <1>9

(* Every picture finds a place in every slot, and fits it.                   *)
LEMMA PlaceFits ==
  ASSUME NEW i \in Positive, NEW s \in Slots, NEW p \in Sizes
  PROVE  \E l \in Layers : /\ ResizeForSlot(i, p, s) = {l}
                           /\ l.what = "slot" /\ Fitting(l, i, s, p)
<1>1. CASE s.fit = "fill"
  <2>1. ResizeForSlot(i, p, s) = Fill(i, s)
    BY <1>1 DEF ResizeForSlot
  <2> QED BY <1>1, <2>1, FillFits
<1>2. CASE s.fit = "cover"
  <2>1. ResizeForSlot(i, p, s) = Cover(i, p, s)
    BY <1>2 DEF ResizeForSlot
  <2> QED BY <1>2, <2>1, CoverFits
<1>3. CASE s.fit = "contain"
  <2>1. ResizeForSlot(i, p, s) = Contain(i, p, s)
    BY <1>3 DEF ResizeForSlot
  <2> QED BY <1>3, <2>1, ContainFits
<1> QED BY <1>1, <1>2, <1>3 DEF Slots

(* A thumbnail fits its box and is not larger than the image.                *)
LEMMA ThumbnailFits ==
  ASSUME NEW image \in Sizes, NEW box, box.w \in Positive, box.h \in Positive
  PROVE  /\ Thumbnail(image, box) \in Sizes
         /\ Thumbnail(image, box)[1] <= box.w /\ Thumbnail(image, box)[1] <= image[1]
         /\ Thumbnail(image, box)[2] <= box.h /\ Thumbnail(image, box)[2] <= image[2]
<1> PICK a \in Positive, b \in Positive, w \in Positive, h \in Positive :
      a = image[1] /\ b = image[2] /\ w = box.w /\ h = box.h
  BY DEF Sizes
<1>p. a \in Int /\ b \in Int /\ w \in Int /\ h \in Int /\ a > 0 /\ b > 0 /\ w > 0 /\ h > 0
  BY DEF Positive
<1>1. \A x \in Positive : Scaled(x, <<1, 1>>) = x
  <2>1. ASSUME NEW x \in Positive
        PROVE  Scaled(x, <<1, 1>>) = x
    <3>1. 1 \in Positive /\ x * 1 <= x * 1 /\ x \in Int
      BY DEF Positive
    <3>2. /\ Scaled(x, <<1, 1>>) \in Positive
          /\ x <= Scaled(x, <<1, 1>>) /\ Scaled(x, <<1, 1>>) <= x
      BY <3>1, ScaledBounds
    <3> QED BY <3>1, <3>2 DEF Positive
  <2> QED BY <2>1
<1> DEFINE scale == ContainScale(image, box)
           down == IF Less(<<1, 1>>, scale) THEN <<1, 1>> ELSE scale
<1>2. Thumbnail(image, box) = <<Scaled(a, down), Scaled(b, down)>>
  BY DEF Thumbnail, Resize
<1>3. CASE w * b < h * a
  <2>1. scale = <<w, a>>
    BY <1>3 DEF ContainScale, Less, WidthScale, HeightScale
  <2>2. down = IF a < w THEN <<1, 1>> ELSE <<w, a>>
    BY <1>p, <2>1 DEF Less
  <2> HIDE DEF scale, down
  <2>3. CASE a < w
    <3>1. a * b <= w * b
      BY <1>p, <2>3
    <3>2. b * a < h * a
      BY <1>p, <1>3, <3>1
    <3>3. b < h
      BY <1>p, <3>2
    <3> QED BY <1>p, <1>1, <1>2, <2>2, <2>3, <3>3 DEF Sizes
  <2>4. CASE ~(a < w)
    <3>1. b * w <= h * a /\ b * w <= b * a
      BY <1>p, <1>3, <2>4
    <3>2. Scaled(a, <<w, a>>) = w /\ Scaled(b, <<w, a>>) \in Positive
      BY ScaledToWidth
    <3>3. Scaled(b, <<w, a>>) <= h /\ Scaled(b, <<w, a>>) <= b
      BY <3>1, ScaledToWidth
    <3> QED BY <1>p, <1>2, <2>2, <2>4, <3>2, <3>3 DEF Sizes
  <2> QED BY <2>3, <2>4
<1>4. CASE ~(w * b < h * a)
  <2>1. scale = <<h, b>>
    BY <1>4 DEF ContainScale, Less, WidthScale, HeightScale
  <2>2. down = IF b < h THEN <<1, 1>> ELSE <<h, b>>
    BY <1>p, <2>1 DEF Less
  <2> HIDE DEF scale, down
  <2>3. CASE b < h
    <3>1. a * b < a * h
      BY <1>p, <2>3
    <3>2. a * b < w * b
      BY <1>p, <1>4, <3>1
    <3>3. a < w
      BY <1>p, <3>2
    <3> QED BY <1>p, <1>1, <1>2, <2>2, <2>3, <3>3 DEF Sizes
  <2>4. CASE ~(b < h)
    <3>1. a * h <= w * b /\ a * h <= a * b
      BY <1>p, <1>4, <2>4
    <3>2. Scaled(b, <<h, b>>) = h /\ Scaled(a, <<h, b>>) \in Positive
      BY ScaledToWidth
    <3>3. Scaled(a, <<h, b>>) <= w /\ Scaled(a, <<h, b>>) <= a
      BY <3>1, ScaledToWidth
    <3> QED BY <1>p, <1>2, <2>2, <2>4, <3>2, <3>3 DEF Sizes
  <2> QED BY <2>3, <2>4
<1> QED BY <1>3, <1>4

(* The layers of one overlay: one or none, and a logo in its corner.         *)
Cornered(l, box, logo) ==
  /\ l.x >= box.x /\ l.x + l.w = box.x + box.w /\ l.w <= logo[1]
  /\ l.y >= box.y /\ l.y + l.h = box.y + box.h /\ l.h <= logo[2]

Drawable ==
  {k \in DOMAIN template.overlays :
     template.overlays[k].type = "logo" => event.include /\ event.logo # Missing}

LEMMA DrawnOverlay ==
  ASSUME template \in Templates, event \in Events, NEW k \in DOMAIN template.overlays
  PROVE  /\ k \in Positive
         /\ k \notin Drawable => Drawn(k, template.overlays[k]) = <<>>
         /\ k \in Drawable =>
              \E l \in Layers :
                /\ Drawn(k, template.overlays[k]) = <<l>> /\ l.of = k /\ l.what # "slot"
                /\ l.what = "logo" => Cornered(l, template.overlays[k], event.logo)
<1> PICK o : o = template.overlays[k]
  OBVIOUS
<1>t. /\ IsOverlay(o) /\ event.logo \in Files
      /\ template.w \in Positive /\ template.h \in Positive
      /\ k \in Positive /\ Whole \in Nat \X Nat
  BY CompositorAssumption DEF Positive, Whole
<1>i. o.x \in Int /\ o.y \in Int /\ template.w \in Int /\ template.h \in Int
  BY <1>t DEF IsOverlay, Positive
<1>1. CASE o.type = "image"
  <2>1. <<o.w, o.h>> \in Sizes
    BY <1>t, <1>1 DEF IsOverlay, Sizes
  <2>2. PICK l \in Layers : l = Layer("image", k, o.x, o.y, <<o.w, o.h>>, Whole)
    BY <1>t, <1>i, <2>1, LayerType
  <2>3. Drawn(k, o) = <<l>>
    BY <1>1, <2>2 DEF Drawn
  <2>4. l.of = k /\ l.what = "image"
    BY <2>2 DEF Layer
  <2>5. k \in Drawable
    BY <1>1 DEF Drawable
  <2> QED BY <1>t, <2>3, <2>4, <2>5
<1>2. CASE o.type = "logo"
  <2>1. CASE k \notin Drawable
    <3>1. ~LogoShown
      BY <1>2, <2>1 DEF Drawable, LogoShown
    <3>2. Drawn(k, o) = <<>>
      BY <1>2, <3>1 DEF Drawn
    <3> QED BY <1>t, <2>1, <3>2
  <2>2. CASE k \in Drawable
    <3>1. LogoShown /\ event.logo \in Sizes
      BY <1>t, <1>2, <2>2 DEF Drawable, LogoShown, Files
    <3>2. PICK size : size = Thumbnail(event.logo, o)
      OBVIOUS
    <3>3. o.w \in Positive /\ o.h \in Positive /\ o.w \in Int /\ o.h \in Int
      BY <1>t, <1>2 DEF IsOverlay, Positive
    <3>4. /\ size \in Sizes /\ size[1] \in Int /\ size[2] \in Int
          /\ size[1] <= o.w /\ size[1] <= event.logo[1]
          /\ size[2] <= o.h /\ size[2] <= event.logo[2]
      <4>1. /\ size \in Sizes /\ size[1] <= o.w /\ size[1] <= event.logo[1]
            /\ size[2] <= o.h /\ size[2] <= event.logo[2]
        BY <3>1, <3>2, <3>3, ThumbnailFits
      <4> QED BY <4>1 DEF Sizes, Positive
    <3>5. o.x + o.w - size[1] \in Int /\ o.y + o.h - size[2] \in Int
      BY <1>i, <3>3, <3>4
    <3>6. PICK l \in Layers :
            l = Layer("logo", k, o.x + o.w - size[1], o.y + o.h - size[2], size, Whole)
      BY <1>t, <3>4, <3>5, LayerType
    <3>7. Drawn(k, o) = <<l>>
      BY <1>2, <3>1, <3>2, <3>6 DEF Drawn
    <3>8. /\ l.of = k /\ l.what = "logo" /\ l.x = o.x + o.w - size[1]
          /\ l.y = o.y + o.h - size[2] /\ l.w = size[1] /\ l.h = size[2]
      BY <3>6 DEF Layer
    <3>9. Cornered(l, o, event.logo)
      <4>1. /\ o.x + o.w - size[1] >= o.x /\ (o.x + o.w - size[1]) + size[1] = o.x + o.w
            /\ o.y + o.h - size[2] >= o.y /\ (o.y + o.h - size[2]) + size[2] = o.y + o.h
        BY <1>i, <3>3, <3>4
      <4> QED BY <3>4, <3>8, <4>1 DEF Cornered
    <3> QED BY <1>t, <2>2, <3>7, <3>8, <3>9
  <2> QED BY <2>1, <2>2
<1>3. CASE o.type = "text"
  <2>1. /\ o.size \in Sizes /\ o.size[1] \in Int /\ o.size[2] \in Int
        /\ o.side[1] \in -1 .. 1 /\ o.side[2] \in -1 .. 1
    BY <1>t, <1>3 DEF IsOverlay, Sizes, Positive
  <2>2. \A side \in -1 .. 1 : \A c, n \in Int : Anchored(side, c, n) \in Int
    <3>1. ASSUME NEW side \in -1 .. 1, NEW c \in Int, NEW n \in Int
          PROVE  Anchored(side, c, n) \in Int
      <4>1. Half(c - n) \in Int
        BY DEF Half
      <4>2. side = -1 \/ side = 0 \/ side = 1
        OBVIOUS
      <4> QED BY <4>1, <4>2 DEF Anchored
    <3> QED BY <3>1
  <2>3. PICK x \in Int : x = Anchored(o.side[1], template.w, o.size[1]) + o.x
    <3>1. Anchored(o.side[1], template.w, o.size[1]) \in Int
      BY <1>i, <2>1, <2>2
    <3> QED BY <1>i, <3>1
  <2>4. PICK y \in Int : y = Anchored(o.side[2], template.h, o.size[2]) + o.y
    <3>1. Anchored(o.side[2], template.h, o.size[2]) \in Int
      BY <1>i, <2>1, <2>2
    <3> QED BY <1>i, <3>1
  <2>5. PICK l \in Layers : l = Layer("text", k, x, y, o.size, Whole)
    BY <1>t, <2>1, LayerType
  <2>6. Drawn(k, o) = <<l>>
    BY <1>3, <2>3, <2>4, <2>5 DEF Drawn
  <2>7. l.of = k /\ l.what = "text"
    BY <2>5 DEF Layer
  <2>8. k \in Drawable
    BY <1>3 DEF Drawable
  <2> QED BY <1>t, <2>6, <2>7, <2>8
<1> QED BY <1>t, <1>1, <1>2, <1>3 DEF IsOverlay
-----------------------------------------------------------------------------
(* Where a render is in its loops, and what it has checked on the way.       *)
LoopOK ==
  /\ variant = "none" <=> phase = "idle"
  /\ phase \in {"idle", "load"} => layers = <<>>
  /\ phase \in {"idle", "load", "slots"} => overlays = 0
  /\ phase = "slots" => Len(layers) < Len(template.slots)
  /\ phase \in {"slots", "overlays", "done"} => Loads /\ Len(sources) = Len(template.slots)
  /\ phase \in {"overlays", "done"} =>
       Len(layers) >= Len(template.slots) /\ \A k \in 1 .. overlays : Resolved(k)
  /\ phase = "done" => overlays = Len(template.overlays)

(* What a preview that was rendered says of the template and the event.      *)
PreviewOK ==
  previewed = "done" => Loads /\ \A k \in 1 .. Len(template.overlays) : Resolved(k)

(* The layers in their order: pictures that fit, then overlays.              *)
FitOK ==
  \A i \in 1 .. Len(layers) : layers[i].what = "slot" =>
    Fitting(layers[i], i, template.slots[i], sources[i])

OrderOK ==
  /\ \A i \in 1 .. Len(layers) : layers[i].what = "slot" <=> i <= Len(template.slots)
  /\ {layers[i].of : i \in Len(template.slots) + 1 .. Len(layers)}
       = Drawable \cap 1 .. overlays
  /\ \A i, j \in Len(template.slots) + 1 .. Len(layers) : i < j => layers[i].of < layers[j].of
  /\ \A i \in 1 .. Len(layers) : layers[i].what = "logo" =>
       Cornered(layers[i], template.overlays[layers[i].of], event.logo)

OutputOK ==
  phase = "done" => IF variant = "print" THEN output = <<template.w, template.h>>
                    ELSE Max({output[1], output[2]}) = template.edge

IInv == /\ TypeOK /\ LoopOK /\ PreviewOK /\ FitOK /\ OrderOK /\ OutputOK
        /\ PreviewPredictsPrint

(* What the types say of the template and the pictures.                      *)
LEMMA Types ==
  ASSUME TypeOK
  PROVE  /\ template.slots \in Seq(Slots) /\ Len(template.slots) \in Positive
         /\ Len(template.slots) \in Nat /\ Len(template.overlays) \in Nat
         /\ DOMAIN template.slots = 1 .. Len(template.slots)
         /\ DOMAIN template.overlays = 1 .. Len(template.overlays)
         /\ layers \in Seq(Layers) /\ Len(layers) \in Nat
         /\ DOMAIN layers = 1 .. Len(layers) /\ \A i \in 1 .. Len(layers) : layers[i] \in Layers
         /\ sources \in Seq(Files) /\ DOMAIN sources = 1 .. Len(sources)
         /\ Len(sources) \in Nat /\ \A i \in 1 .. Len(sources) : sources[i] \in Files
         /\ overlays \in Nat /\ overlays <= Len(template.overlays)
<1>1. /\ template \in Templates /\ template.slots \in Seq(Slots) \ {<<>>}
      /\ Len(template.overlays) \in Nat
      /\ DOMAIN template.overlays = 1 .. Len(template.overlays)
  BY CompositorAssumption DEF TypeOK
<1>2. Len(template.slots) \in Nat /\ Len(template.slots) # 0
  BY <1>1
<1>3. layers \in Seq(Layers) /\ sources \in Seq(Files)
  BY DEF TypeOK, Layers
<1> QED BY <1>1, <1>2, <1>3 DEF TypeOK, Positive

(* The next picture has a place, unless its file is missing.                 *)
LEMMA NextSlot ==
  ASSUME TypeOK, LoopOK, phase = "slots", NEW i, i = SlotNumber
  PROVE  /\ i \in 1 .. Len(template.slots) /\ i = Len(layers) + 1
         /\ i \in 1 .. Len(sources) /\ sources[i] \in Files
         /\ sources[i] = Missing => Pasted(i) = {}
         /\ sources[i] # Missing =>
              \E l \in Layers : /\ Pasted(i) = {l} /\ l.what = "slot"
                                /\ Fitting(l, i, template.slots[i], sources[i])
<1>1. /\ i \in 1 .. Len(template.slots) /\ i = Len(layers) + 1 /\ i \in Positive
      /\ template.slots[i] \in Slots
      /\ i \in 1 .. Len(sources) /\ sources[i] \in Files
  BY Types DEF LoopOK, SlotNumber, Positive
<1>2. ASSUME sources[i] = Missing
      PROVE  Pasted(i) = {}
  BY <1>2 DEF Pasted
<1>3. ASSUME sources[i] # Missing
      PROVE  \E l \in Layers : /\ Pasted(i) = {l} /\ l.what = "slot"
                               /\ Fitting(l, i, template.slots[i], sources[i])
  <2>1. sources[i] \in Sizes
    BY <1>1, <1>3 DEF Files
  <2>2. {sources[i]} \ {Missing} = {sources[i]}
    BY <1>3
  <2>3. Pasted(i) = ResizeForSlot(i, sources[i], template.slots[i])
    BY <2>2 DEF Pasted
  <2> QED BY <1>1, <2>1, <2>3, PlaceFits
<1> QED BY <1>1, <1>2, <1>3
-----------------------------------------------------------------------------
(* The steps.                                                                *)
LEMMA CompositorInit == Init => IInv
<1> SUFFICES ASSUME Init PROVE IInv
  OBVIOUS
<1>1. template.slots \in Seq(Slots) \ {<<>>} /\ Len(template.overlays) \in Nat
  BY CompositorAssumption DEF Init
<1>2. layers = <<>> /\ sources = <<>> /\ Len(layers) = 0 /\ overlays = 0
  BY DEF Init
<1>3. TypeOK
  BY <1>1, <1>2 DEF Init, TypeOK, Files
<1>4. FitOK /\ OrderOK
  <2>1. 1 .. 0 = {} /\ {layers[i].of : i \in Len(template.slots) + 1 .. 0} = {}
    BY <1>1
  <2> QED BY <1>1, <1>2, <2>1 DEF FitOK, OrderOK
<1> QED BY <1>2, <1>3, <1>4
        DEF Init, IInv, LoopOK, PreviewOK, OutputOK, PreviewPredictsPrint

LEMMA Starts ==
  ASSUME IInv, NEW v \in {"web", "print"}, NEW images \in Seq(Files), Start(v, images)
  PROVE  IInv'
<1>1. /\ TypeOK /\ template' = template /\ event' = event /\ previewed' = previewed
      /\ layers' = <<>> /\ Len(layers') = 0 /\ overlays' = 0 /\ phase' = "load"
  BY DEF IInv, Start
<1>2. TypeOK'
  BY <1>1, Types DEF Start, TypeOK, Files
<1>3. LoopOK' /\ OutputOK' /\ PreviewPredictsPrint'
  BY <1>1 DEF Start, LoopOK, OutputOK, PreviewPredictsPrint
<1>4. PreviewOK'
  BY <1>1 DEF IInv, PreviewOK, Loads, Resolved
<1>5. FitOK' /\ OrderOK'
  <2>1. 1 .. 0 = {} /\ {layers'[i].of : i \in Len(template.slots) + 1 .. 0} = {}
    BY <1>1, Types
  <2> QED BY <1>1, <2>1, Types DEF FitOK, OrderOK
<1> QED BY <1>2, <1>3, <1>4, <1>5 DEF IInv

(* Nothing is drawn.                                                         *)
LEMMA NothingDrawn ==
  ASSUME IInv, UNCHANGED <<inputs, layers, overlays>>
  PROVE  /\ FitOK' /\ OrderOK' /\ (Loads' <=> Loads)
         /\ \A k : Resolved(k)' <=> Resolved(k)
<1>1. /\ template' = template /\ event' = event /\ sources' = sources
      /\ layers' = layers /\ overlays' = overlays
  BY DEF inputs
<1>2. FitOK'
  BY <1>1 DEF IInv, FitOK
<1>3. Drawable' = Drawable
  BY <1>1 DEF Drawable
<1>4. OrderOK'
  BY <1>1, <1>3 DEF IInv, OrderOK
<1>5. (Loads' <=> Loads) /\ \A k : Resolved(k)' <=> Resolved(k)
  BY <1>1 DEF Loads, Resolved
<1> QED BY <1>2, <1>4, <1>5

LEMMA Loading ==
  ASSUME IInv, LoadTemplate
  PROVE  IInv'
<1>1. /\ UNCHANGED <<inputs, layers, overlays, output, previewed>>
      /\ phase = "load" /\ phase' = "slots" /\ Loads /\ Len(sources) = Len(template.slots)
  BY DEF LoadTemplate
<1>2. TypeOK' /\ FitOK' /\ OrderOK' /\ PreviewOK' /\ OutputOK' /\ PreviewPredictsPrint'
  BY <1>1, NothingDrawn DEF IInv, TypeOK, PreviewOK, OutputOK, PreviewPredictsPrint, inputs
<1>3. Len(layers) < Len(template.slots)
  BY <1>1, Types DEF IInv, LoopOK, Positive
<1>4. LoopOK'
  BY <1>1, <1>3, NothingDrawn DEF IInv, LoopOK, inputs
<1> QED BY <1>2, <1>4 DEF IInv

(* A render that ends in an error, of which the preview must have told.      *)
LEMMA Failing ==
  ASSUME IInv, phase # "idle", Ends("failed"), UNCHANGED output,
         /\ variant = "print" /\ Len(sources) = Len(template.slots)
         /\ Loads /\ \A k \in 1 .. Len(template.overlays) : Resolved(k)
         => \E i \in DOMAIN sources : sources[i] = Missing
  PROVE  IInv'
<1>1. /\ UNCHANGED <<inputs, layers, overlays, output>> /\ phase' = "failed"
      /\ previewed' = IF variant = "web" THEN "failed" ELSE previewed
  BY DEF Ends
<1>2. TypeOK' /\ FitOK' /\ OrderOK' /\ OutputOK'
  BY <1>1, NothingDrawn DEF IInv, TypeOK, OutputOK, inputs
<1>3. LoopOK' /\ PreviewOK'
  BY <1>1, NothingDrawn DEF IInv, LoopOK, PreviewOK, inputs
<1>4. PreviewPredictsPrint'
  BY <1>1 DEF IInv, PreviewOK, PreviewPredictsPrint, inputs
<1> QED BY <1>2, <1>3, <1>4 DEF IInv

(* One more layer.                                                           *)
LEMMA OneMore ==
  ASSUME TypeOK, NEW l \in Layers, layers' = Append(layers, l)
  PROVE  /\ layers' \in Seq(Layers) /\ Len(layers') = Len(layers) + 1
         /\ layers'[Len(layers) + 1] = l
         /\ \A i \in 1 .. Len(layers) : layers'[i] = layers[i]
         /\ \A i \in 1 .. Len(layers') : i \in 1 .. Len(layers) \/ i = Len(layers) + 1
BY Types, AppendProperties

LEMMA Placing ==
  ASSUME IInv, PlaceSlot
  PROVE  IInv'
<1>0. TypeOK /\ LoopOK /\ FitOK /\ OrderOK
  BY DEF IInv
<1>u. /\ phase = "slots" /\ phase' \in {"slots", "overlays"}
      /\ phase' = "slots" => SlotNumber # Len(template.slots)
      /\ phase' = "overlays" => SlotNumber = Len(template.slots)
      /\ UNCHANGED <<inputs, overlays, output, previewed>> /\ overlays = 0
  BY <1>0 DEF PlaceSlot, LoopOK
<1> PICK i : i = SlotNumber
  OBVIOUS
<1>1. /\ i \in 1 .. Len(template.slots) /\ i = Len(layers) + 1
      /\ sources[i] = Missing => Pasted(i) = {}
      /\ sources[i] # Missing =>
           \E l \in Layers : /\ Pasted(i) = {l} /\ l.what = "slot"
                             /\ Fitting(l, i, template.slots[i], sources[i])
  BY <1>0, <1>u, NextSlot
<1>2. PICK l \in Layers : /\ layers' = Append(layers, l) /\ l.what = "slot"
                          /\ Fitting(l, i, template.slots[i], sources[i])
  BY <1>1 DEF PlaceSlot
<1>3. /\ layers' \in Seq(Layers) /\ Len(layers') = i /\ layers'[i] = l
      /\ \A j \in 1 .. Len(layers) : layers'[j] = layers[j]
      /\ \A j \in 1 .. Len(layers') : j \in 1 .. Len(layers) \/ j = i
  BY <1>0, <1>1, <1>2, OneMore
<1>4. TypeOK'
  BY <1>0, <1>u, <1>3 DEF TypeOK, Layers, inputs
<1>5. LoopOK'
  <2>1. Len(template.slots) \in Nat /\ Len(layers) \in Nat
    BY <1>0, Types
  <2>2. phase' = "slots" => Len(layers') < Len(template.slots)
    BY <1>u, <1>1, <1>3, <2>1
  <2>3. phase' = "overlays" => Len(layers') >= Len(template.slots)
    BY <1>u, <1>3, <2>1
  <2>4. Loads' /\ Len(sources') = Len(template'.slots) /\ variant' # "none"
    BY <1>0, <1>u DEF LoopOK, Loads, inputs
  <2>5. \A k \in 1 .. overlays' : FALSE
    BY <1>u
  <2> QED BY <1>u, <2>2, <2>3, <2>4, <2>5 DEF LoopOK, inputs
<1>6. FitOK'
  <2>1. ASSUME NEW j \in 1 .. Len(layers'), layers'[j].what = "slot"
        PROVE  Fitting(layers'[j], j, template'.slots[j], sources'[j])
    <3>1. template' = template /\ sources' = sources
      BY <1>u DEF inputs
    <3>2. CASE j \in 1 .. Len(layers)
      BY <1>0, <1>3, <2>1, <3>1, <3>2 DEF FitOK
    <3>3. CASE j = i
      BY <1>2, <1>3, <3>1, <3>3
    <3> QED BY <1>3, <3>2, <3>3
  <2> QED BY <2>1 DEF FitOK
<1>7. OrderOK'
  <2>1. template' = template /\ event' = event /\ overlays' = 0
    BY <1>u DEF inputs
  <2>2. \A j \in Len(template.slots) + 1 .. Len(layers') : FALSE
    BY <1>1, <1>3, <1>0, Types
  <2>3. Drawable' \cap 1 .. overlays' = {}
    BY <2>1
  <2>4. \A j \in 1 .. Len(layers') : layers'[j].what = "slot" /\ j <= Len(template.slots)
    <3>1. \A j \in 1 .. Len(layers) : layers[j].what = "slot" /\ j <= Len(template.slots)
      BY <1>0, <1>1, Types DEF OrderOK
    <3> QED BY <1>1, <1>2, <1>3, <3>1, Types
  <2> QED BY <2>1, <2>2, <2>3, <2>4 DEF OrderOK
<1>8. PreviewOK' /\ OutputOK' /\ PreviewPredictsPrint'
  BY <1>u DEF IInv, PreviewOK, OutputOK, PreviewPredictsPrint, Loads, Resolved, inputs
<1> QED BY <1>4, <1>5, <1>6, <1>7, <1>8 DEF IInv

LEMMA ConcatOne ==
  ASSUME NEW S, NEW s \in Seq(S), NEW x \in S
  PROVE  s \o <<x>> = Append(s, x)
OBVIOUS

(* The next overlay draws one layer over all the others, or none.            *)
LEMMA Overlaying ==
  ASSUME IInv, PlaceOverlay
  PROVE  IInv'
<1>0. TypeOK /\ LoopOK /\ FitOK /\ OrderOK
  BY DEF IInv
<1>1. PICK k \in DOMAIN template.overlays :
        /\ NextOverlay(k) /\ Resolved(k)
        /\ layers' = layers \o Drawn(k, template.overlays[k]) /\ overlays' = k
  BY DEF PlaceOverlay
<1>u. /\ UNCHANGED <<inputs, phase, output, previewed>> /\ phase = "overlays"
      /\ template' = template /\ event' = event /\ sources' = sources
      /\ k = overlays + 1 /\ k <= Len(template.overlays) /\ overlays' = k
  BY <1>1 DEF PlaceOverlay, NextOverlay, inputs
<1> DEFINE slots == Len(template.slots)
           n == Len(layers)
<1>t. /\ slots \in Nat /\ n \in Nat /\ slots <= n /\ overlays \in Nat /\ k \in Nat
      /\ layers \in Seq(Layers) /\ template \in Templates /\ event \in Events
  BY <1>0, <1>u, Types DEF LoopOK, TypeOK
<1>2. PreviewOK' /\ OutputOK' /\ PreviewPredictsPrint' /\ Drawable' = Drawable
  BY <1>u DEF IInv, PreviewOK, OutputOK, PreviewPredictsPrint, Loads, Resolved, inputs, Drawable
<1>3. \A j \in 1 .. k : Resolved(j)'
  <2>1. \A j \in 1 .. k : j \in 1 .. overlays \/ j = k
    BY <1>t, <1>u
  <2> QED BY <1>0, <1>1, <1>u, <2>1 DEF LoopOK, Resolved
<1>4. ASSUME NEW m \in Nat, m >= n, Len(layers') = m
      PROVE  LoopOK'
  <2>1. Len(layers') >= slots
    BY <1>t, <1>4
  <2>2. Loads' /\ Len(sources') = Len(template'.slots)
    BY <1>0, <1>u DEF LoopOK, Loads
  <2> QED BY <1>0, <1>3, <1>u, <2>1, <2>2 DEF LoopOK, inputs
<1>5. \A j : j \in 1 .. k => j \in 1 .. overlays \/ j = k
  BY <1>t, <1>u
<1>6. k \in 1 .. k /\ 1 .. overlays \subseteq 1 .. k /\ k \notin 1 .. overlays
  BY <1>t, <1>u
<1>7. CASE k \notin Drawable
  <2>1. layers' = layers
    <3>1. Drawn(k, template.overlays[k]) = <<>>
      BY <1>7, <1>t, DrawnOverlay
    <3> QED BY <1>1, <1>t, <3>1, ConcatEmptySeq
  <2>2. TypeOK'
    BY <1>0, <1>u, <1>t, <2>1, Types DEF TypeOK, inputs
  <2>3. FitOK' /\ LoopOK'
    BY <1>0, <1>u, <1>t, <1>4, <2>1 DEF FitOK
  <2>4. Drawable' \cap 1 .. overlays' = Drawable \cap 1 .. overlays
    BY <1>2, <1>5, <1>6, <1>7, <1>u
  <2>5. OrderOK'
    BY <1>0, <1>u, <2>1, <2>4 DEF OrderOK
  <2> QED BY <1>2, <2>2, <2>3, <2>5 DEF IInv
<1>8. CASE k \in Drawable
  <2>1. PICK l \in Layers :
          /\ Drawn(k, template.overlays[k]) = <<l>> /\ l.of = k /\ l.what # "slot"
          /\ l.what = "logo" => Cornered(l, template.overlays[k], event.logo)
    BY <1>8, <1>t, DrawnOverlay
  <2>2. layers' = Append(layers, l)
    BY <1>1, <1>t, <2>1, ConcatOne
  <2>3. /\ layers' \in Seq(Layers) /\ Len(layers') = n + 1 /\ layers'[n + 1] = l
        /\ \A i \in 1 .. n : layers'[i] = layers[i]
        /\ \A i \in 1 .. Len(layers') : i \in 1 .. n \/ i = n + 1
    BY <1>0, <2>2, OneMore
  <2>4. TypeOK'
    BY <1>0, <1>u, <1>t, <2>3, Types DEF TypeOK, Layers, inputs
  <2>5. LoopOK'
    BY <1>4, <1>t, <2>3
  <2>6. FitOK'
    BY <1>0, <1>u, <2>1, <2>3 DEF FitOK
  <2>7. OrderOK'
    <3> DEFINE over == slots + 1 .. n
               now == slots + 1 .. Len(layers')
    <3>1. \A i \in 1 .. n : layers[i].what = "slot" <=> i <= slots
      BY <1>0 DEF OrderOK
    <3>2. {layers[i].of : i \in over} = Drawable \cap 1 .. overlays
      BY <1>0 DEF OrderOK
    <3>3. \A i, j \in over : i < j => layers[i].of < layers[j].of
      BY <1>0 DEF OrderOK
    <3>4. \A i \in 1 .. n : layers[i].what = "logo" =>
            Cornered(layers[i], template.overlays[layers[i].of], event.logo)
      BY <1>0 DEF OrderOK
    <3>5. /\ now = over \cup {n + 1} /\ over \subseteq 1 .. n
          /\ n + 1 \notin 1 .. n /\ ~(n + 1 <= slots)
      BY <1>t, <2>3
    <3>6. \A i \in over : i < n + 1 /\ ~(n + 1 < i)
      BY <1>t
    <3>7. \A i \in over : layers'[i].of = layers[i].of
      BY <2>3, <3>5
    <3> HIDE DEF over, now
    <3>8. \A i \in 1 .. Len(layers') : layers'[i].what = "slot" <=> i <= slots
      BY <2>1, <2>3, <3>1, <3>5
    <3>9. {layers'[i].of : i \in now} = Drawable \cap 1 .. k
      <4>1. {layers'[i].of : i \in now} = {layers[i].of : i \in over} \cup {k}
        BY <2>1, <2>3, <3>5, <3>7
      <4> QED BY <1>5, <1>6, <1>8, <3>2, <4>1
    <3>10. \A i, j \in now : i < j => layers'[i].of < layers'[j].of
      <4>1. \A i \in over : layers[i].of < k
        <5>1. \A i \in over : layers[i].of \in 1 .. overlays
          BY <3>2
        <5> QED BY <1>t, <1>u, <5>1
      <4>2. ~(n + 1 < n + 1)
        BY <1>t
      <4> QED BY <2>1, <2>3, <3>3, <3>5, <3>6, <3>7, <4>1, <4>2
    <3>11. \A i \in 1 .. Len(layers') : layers'[i].what = "logo" =>
             Cornered(layers'[i], template.overlays[layers'[i].of], event.logo)
      BY <2>1, <2>3, <3>4
    <3> QED BY <1>2, <1>u, <3>8, <3>9, <3>10, <3>11 DEF OrderOK, now
  <2> QED BY <1>2, <2>4, <2>5, <2>6, <2>7 DEF IInv
<1> QED BY <1>7, <1>8

(* The long edge of a canvas that is scaled to edge becomes edge.            *)
LEMMA LongEdge ==
  ASSUME NEW w \in Positive, NEW h \in Positive, NEW e \in Positive,
         NEW size, size = Resize(<<w, h>>, ContainScale(<<w, h>>, [w |-> e, h |-> e]),
                                 ContainScale(<<w, h>>, [w |-> e, h |-> e]))
  PROVE  size \in Sizes /\ Max({size[1], size[2]}) = e
<1>p. w \in Int /\ w > 0 /\ h \in Int /\ h > 0 /\ e \in Int /\ e > 0
  BY DEF Positive
<1> DEFINE scale == ContainScale(<<w, h>>, [w |-> e, h |-> e])
<1>1. size = <<Scaled(w, scale), Scaled(h, scale)>>
  BY DEF Resize
<1>2. scale = IF e * h < e * w THEN <<e, w>> ELSE <<e, h>>
  BY DEF ContainScale, WidthScale, HeightScale, Less
<1> HIDE DEF scale
<1>3. CASE e * h < e * w
  <2>1. h * e <= e * w
    BY <1>p, <1>3
  <2>2. /\ Scaled(w, <<e, w>>) = e /\ Scaled(h, <<e, w>>) \in Positive
        /\ Scaled(h, <<e, w>>) <= e
    <3>1. h * e <= e * w
      BY <1>p, <1>3
    <3> QED BY <3>1, ScaledToWidth
  <2>3. Max({e, Scaled(h, <<e, w>>)}) = e
    BY <1>p, <2>2, MaxOfTwo DEF Positive
  <2> QED BY <1>1, <1>2, <1>3, <2>2, <2>3 DEF Sizes
<1>4. CASE ~(e * h < e * w)
  <2>1. w * e <= e * h
    BY <1>p, <1>4
  <2>2. /\ Scaled(h, <<e, h>>) = e /\ Scaled(w, <<e, h>>) \in Positive
        /\ Scaled(w, <<e, h>>) <= e
    BY <2>1, ScaledToWidth
  <2>3. Max({Scaled(w, <<e, h>>), e}) = e
    <3>1. Scaled(w, <<e, h>>) \in Int
      BY <2>2 DEF Positive
    <3>2. Scaled(w, <<e, h>>) >= e => Scaled(w, <<e, h>>) = e
      BY <1>p, <2>2, <3>1
    <3> QED BY <1>p, <3>1, <3>2, MaxOfTwo
  <2> QED BY <1>1, <1>2, <1>4, <2>2, <2>3 DEF Sizes
<1> QED BY <1>3, <1>4

LEMMA Encoding ==
  ASSUME IInv, Encode
  PROVE  IInv'
<1>1. /\ UNCHANGED <<inputs, layers, overlays>> /\ phase' = "done"
      /\ phase = "overlays" /\ overlays = Len(template.overlays)
      /\ previewed' = IF variant = "web" THEN "done" ELSE previewed
      /\ template' = template /\ variant' = variant
  BY DEF Encode, Ends, inputs
<1>2. /\ {template.w, template.h, template.edge} \subseteq Positive
      /\ variant \in {"web", "print"}
  BY <1>1, CompositorAssumption DEF IInv, TypeOK, LoopOK
<1>3. /\ output' \in Sizes
      /\ IF variant = "print" THEN output' = <<template.w, template.h>>
         ELSE Max({output'[1], output'[2]}) = template.edge
  <2>1. <<template.w, template.h>> \in Sizes
    BY <1>2 DEF Sizes
  <2> QED BY <1>2, <2>1, LongEdge DEF Encode
<1>4. TypeOK'
  BY <1>1, <1>3 DEF IInv, TypeOK, Files, inputs
<1>5. FitOK' /\ OrderOK' /\ LoopOK'
  BY <1>1, <1>2, NothingDrawn DEF IInv, LoopOK, inputs
<1>6. PreviewOK'
  <2>1. Loads' /\ \A k \in 1 .. Len(template.overlays) : Resolved(k)'
    BY <1>1, NothingDrawn DEF IInv, LoopOK
  <2> QED BY <1>1, <2>1 DEF PreviewOK
<1>7. OutputOK' /\ PreviewPredictsPrint'
  BY <1>1, <1>3 DEF OutputOK, PreviewPredictsPrint
<1> QED BY <1>4, <1>5, <1>6, <1>7 DEF IInv

LEMMA Stuttering ==
  ASSUME IInv, UNCHANGED vars
  PROVE  IInv'
<1>1. UNCHANGED <<inputs, phase, layers, overlays, output, previewed>>
  BY DEF vars
<1>2. FitOK' /\ OrderOK' /\ LoopOK' /\ PreviewOK'
  BY <1>1, NothingDrawn DEF IInv, LoopOK, PreviewOK, inputs
<1>3. TypeOK' /\ OutputOK' /\ PreviewPredictsPrint'
  BY <1>1 DEF IInv, TypeOK, OutputOK, PreviewPredictsPrint, inputs
<1> QED BY <1>2, <1>3 DEF IInv

LEMMA CompositorStep == IInv /\ [Next]_vars => IInv'
<1> SUFFICES ASSUME IInv, [Next]_vars PROVE IInv'
  OBVIOUS
<1>0. TypeOK /\ LoopOK
  BY DEF IInv
<1>1. CASE RenderPreview
  <2>1. [i \in DOMAIN template.slots |-> Sample] \in Seq(Files)
    <3>1. DOMAIN template.slots = 1 .. Len(template.slots) /\ Len(template.slots) \in Nat
      BY <1>0, Types
    <3> QED BY <3>1, CompositorAssumption DEF Files
  <2> QED BY <1>1, <2>1, Starts DEF RenderPreview
<1>2. CASE RenderPrint
  <2>1. PICK shots \in Shoots : Start("print", shots)
    BY <1>2 DEF RenderPrint
  <2>2. shots \in Seq(Files)
    BY CompositorAssumption
  <2> QED BY <2>1, <2>2, Starts
<1>3. CASE LoadTemplate
  BY <1>3, Loading
<1>4. CASE LoadFails
  BY <1>4, Failing DEF LoadFails
<1>5. CASE PlaceSlot
  BY <1>5, Placing
<1>6. CASE SlotFails
  <2>1. phase = "slots" /\ Pasted(SlotNumber) = {} /\ Ends("failed") /\ UNCHANGED output
    BY <1>6 DEF SlotFails
  <2>2. \E i \in DOMAIN sources : sources[i] = Missing
    <3>1. PICK i : i = SlotNumber
      OBVIOUS
    <3>2. i \in DOMAIN sources
      BY <1>0, <2>1, <3>1, NextSlot, Types
    <3>3. sources[i] = Missing
      BY <1>0, <2>1, <3>1, NextSlot
    <3> QED BY <3>2, <3>3
  <2> QED BY <2>1, <2>2, Failing
<1>7. CASE PlaceOverlay
  BY <1>7, Overlaying
<1>8. CASE OverlayFails
  <2>1. PICK k \in 1 .. Len(template.overlays) :
          phase = "overlays" /\ ~Resolved(k) /\ Ends("failed") /\ UNCHANGED output
    BY <1>0, <1>8, Types DEF OverlayFails, NextOverlay
  <2> QED BY <2>1, Failing
<1>9. CASE Encode
  BY <1>9, Encoding
<1>10. CASE UNCHANGED vars
  BY <1>10, Stuttering
<1> QED BY <1>1, <1>2, <1>3, <1>4, <1>5, <1>6, <1>7, <1>8, <1>9, <1>10 DEF Next

LEMMA Inductive == Spec => []IInv
BY CompositorInit, CompositorStep, PTL DEF Spec
-----------------------------------------------------------------------------
(* Every layer is a picture of some extent at a whole pixel, with a cut that *)
(* begins inside the resized image, and the output has pixels, whatever the  *)
(* sizes are (compositor.py:77-102, 192-294).                                *)
THEOREM TypeCorrect == Spec => []TypeOK
<1>1. IInv => TypeOK
  BY DEF IInv
<1> QED BY <1>1, Inductive, PTL

(* Pictures and slots of every size and shape: each picture is in its slot,  *)
(* fill and cover leave no gap, contain reaches two edges and is centred,    *)
(* and cover cuts the middle out, all to the pixel (compositor.py:77-102).   *)
THEOREM PicturesAlwaysFit == Spec => []PicturesFit
<1>1. IInv => PicturesFit
  <2> SUFFICES ASSUME IInv, NEW i \in DOMAIN layers, layers[i].what = "slot"
               PROVE  Fitting(layers[i], i, template.slots[i], sources[i])
    BY DEF PicturesFit, Fitting
  <2>1. i \in 1 .. Len(layers)
    BY Types DEF IInv
  <2> QED BY <2>1 DEF IInv, FitOK
<1> QED BY <1>1, Inductive, PTL

(* For every template and event: once its preview was rendered, a guest's    *)
(* print of it fails for no size or orientation of the pictures, only for a  *)
(* missing file or another number of them (admin.py:536-563,                 *)
(* session.py:289-302).                                                      *)
THEOREM PreviewStands == Spec => []PreviewPredictsPrint
<1>1. IInv => PreviewPredictsPrint
  BY DEF IInv
<1> QED BY <1>1, Inductive, PTL

(* For any number of slots and overlays, a finished composite has all its    *)
(* pictures below all its overlays, each once and in order, the logo when    *)
(* and where the event wants it, and the size of its variant                 *)
(* (compositor.py:192-294).                                                  *)
THEOREM CompositesComplete == Spec => []CompositeComplete
<1>1. IInv => CompositeComplete
  <2> SUFFICES ASSUME IInv, phase = "done" PROVE CompositeComplete
    BY DEF CompositeComplete
  <2>1. /\ Len(layers) \in Nat /\ Len(template.slots) \in Nat
        /\ DOMAIN layers = 1 .. Len(layers) /\ overlays = Len(template.overlays)
        /\ DOMAIN template.overlays = 1 .. Len(template.overlays)
    BY Types DEF IInv, LoopOK
  <2>2. {layers[i].of : i \in Len(template.slots) + 1 .. Len(layers)} = Drawable
    BY <2>1 DEF IInv, OrderOK, Drawable
  <2>3. \A i \in DOMAIN layers : layers[i].what = "slot" <=> i <= Len(template.slots)
    BY <2>1 DEF IInv, OrderOK
  <2>4. \A i, j \in Len(template.slots) + 1 .. Len(layers) :
          i < j => layers[i].of < layers[j].of
    BY DEF IInv, OrderOK
  <2>5. \A i \in DOMAIN layers : layers[i].what = "logo" =>
          Cornered(layers[i], template.overlays[layers[i].of], event.logo)
    BY <2>1 DEF IInv, OrderOK
  <2>6. IF variant = "print" THEN output = <<template.w, template.h>>
        ELSE Max({output[1], output[2]}) = template.edge
    BY DEF IInv, OutputOK
  <2> QED BY <2>2, <2>3, <2>4, <2>5, <2>6 DEF CompositeComplete, Cornered, Drawable
<1> QED BY <1>1, Inductive, PTL
=============================================================================
