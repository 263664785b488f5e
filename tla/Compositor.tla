----------------------------- MODULE Compositor -----------------------------
(* pipeline/compositor.py and pipeline/template.py: the operator's preview   *)
(* of a template with the sample shot, then a guest's print of the same      *)
(* template with the guest's shots.  Sizes are in pixels; libvips' resize,   *)
(* thumbnail and composite are external.                                     *)
EXTENDS Integers, Sequences, FiniteSetsExt

CONSTANTS
  Templates,  \* [w, h, slots, overlays, assets, edge]: edge is web's long_edge
  Events,     \* [logo, include, vars]: logo is a size or Missing
  Shoots,     \* the guests' pictures: sequences of sizes, or Missing
  Sample      \* size of the fixture SAMPLE_SHOT

(* An image is <<width, height>>; a file that is not there has no size.      *)
Missing == <<0, 0>>

Positive == Nat \ {0}
Sizes == Positive \X Positive
Files == Sizes \cup {Missing}

(* Slots and overlays of template.py; slots, boxes and texts have an area.   *)
Slots == [x : Int, y : Int, w : Positive, h : Positive,
          fit : {"cover", "contain", "fill"}]

IsOverlay(o) ==
  /\ o.type \in {"image", "logo", "text"} /\ o.x \in Int /\ o.y \in Int
  /\ IF o.type = "text" THEN o.size \in Sizes /\ o.side \in (-1 .. 1) \X (-1 .. 1)
                         ELSE o.w \in Positive /\ o.h \in Positive

ASSUME CompositorAssumption ==
  /\ Sample \in Sizes /\ Shoots \subseteq Seq(Files)
  /\ \A e \in Events : e.logo \in Files /\ e.include \in BOOLEAN
  /\ \A t \in Templates :
       /\ {t.w, t.h, t.edge} \subseteq Positive /\ t.assets \in BOOLEAN
       /\ t.slots \in Seq(Slots) \ {<<>>}
       /\ DOMAIN t.overlays = 1 .. Len(t.overlays) /\ Len(t.overlays) \in Nat
       /\ \A k \in DOMAIN t.overlays : IsOverlay(t.overlays[k])

VARIABLES
  template, event,
  variant,    \* "none", "web" for the preview, "print" for the guest
  sources,    \* source_images
  phase,      \* "idle", "load", "slots", "overlays", "done", "failed"
  layers,     \* what is composited on the canvas so far, lowest first
  overlays,   \* how many overlays the loop is through with
  output,     \* size of the encoded image
  previewed   \* how the preview ended

inputs == <<template, event, variant, sources>>
vars == <<inputs, phase, layers, overlays, output, previewed>>

Layer(what, of, x, y, size, cut) ==
  [what |-> what, of |-> of, x |-> x, y |-> y, w |-> size[1], h |-> size[2], cut |-> cut]
Whole == <<0, 0>>

TypeOK ==
  /\ template \in Templates /\ event \in Events
  /\ variant \in {"none", "web", "print"}
  /\ sources \in Seq(Files) /\ output \in Files
  /\ phase \in {"idle", "load", "slots", "overlays", "done", "failed"}
  /\ previewed \in {"none", "done", "failed"}
  /\ layers \in Seq([what : {"slot", "image", "logo", "text"}, of : Positive,
                     x : Int, y : Int, w : Positive, h : Positive, cut : Nat \X Nat])
  /\ overlays \in 0 .. Len(template.overlays)

Init ==
  /\ template \in Templates /\ event \in Events
  /\ variant = "none" /\ sources = <<>>
  /\ phase = "idle" /\ layers = <<>> /\ overlays = 0
  /\ output = Missing /\ previewed = "none"
-----------------------------------------------------------------------------
(* Mutation: a picture much longer than wide is scaled to nothing.           *)
Vanishing(length, scale) == (2 * length * scale[1] + scale[2]) \div (2 * scale[2])

(* libvips rounds a size to the nearest pixel, a half up, and keeps one.     *)
Scaled(length, scale) ==
  Max({1, (2 * length * scale[1] + scale[2]) \div (2 * scale[2])})

Resize(image, hscale, vscale) == <<Scaled(image[1], hscale), Scaled(image[2], vscale)>>

Less(p, q) == p[1] * q[2] < q[1] * p[2]

(* Mutation: the corner of the picture is cut out, not its middle.           *)
NoHalf(n) == 0

(* Python's round(n / 2): a half goes to the even neighbour.                 *)
Half(n) ==
  LET low == n \div 2
  IN IF n % 2 = 1 /\ low % 2 = 1 THEN low + 1 ELSE low

WidthScale(image, slot) == <<slot.w, image[1]>>
HeightScale(image, slot) == <<slot.h, image[2]>>

(* Mutation: a picture wider than its slot is taken for granted.             *)
ScaleByWidth(image, slot) == WidthScale(image, slot)

(* fit "cover": scale = max(slot.w / image.width, slot.h / image.height)     *)
CoverScale(image, slot) ==
  IF Less(WidthScale(image, slot), HeightScale(image, slot))
  THEN HeightScale(image, slot) ELSE WidthScale(image, slot)

(* fit "contain": the min of the two.                                        *)
ContainScale(image, slot) ==
  IF Less(WidthScale(image, slot), HeightScale(image, slot))
  THEN WidthScale(image, slot) ELSE HeightScale(image, slot)

(* _resize_for_slot: what is pasted for picture i, or nothing, where libvips *)
(* refuses a crop that leaves the resized image.                             *)
Fill(i, slot) == {Layer("slot", i, slot.x, slot.y, <<slot.w, slot.h>>, Whole)}

Cover(i, image, slot) ==
  LET scale == CoverScale(image, slot)
      resized == Resize(image, scale, scale)
      left == Half(resized[1] - slot.w)
      top == Half(resized[2] - slot.h)
  IN {l \in {Layer("slot", i, slot.x, slot.y, <<slot.w, slot.h>>, <<left, top>>)} :
        /\ left >= 0 /\ left + slot.w <= resized[1]
        /\ top >= 0 /\ top + slot.h <= resized[2]}

Contain(i, image, slot) ==
  LET scale == ContainScale(image, slot)
      resized == Resize(image, scale, scale)
  IN {Layer("slot", i, slot.x + Half(slot.w - resized[1]),
            slot.y + Half(slot.h - resized[2]), resized, Whole)}

ResizeForSlot(i, image, slot) ==
  CASE slot.fit = "fill"    -> Fill(i, slot)
    [] slot.fit = "cover"   -> Cover(i, image, slot)
    [] slot.fit = "contain" -> Contain(i, image, slot)

(* _anchor_position: an anchor is a pair of -1, 0, 1 (left or top, center,   *)
(* right or bottom).                                                         *)
Anchored(side, canvas, length) ==
  CASE side = -1 -> 0 [] side = 1 -> canvas - length [] side = 0 -> Half(canvas - length)

(* Mutation: the event's include_logo_in_prints is not looked at.            *)
LogoRegardless == event.logo # Missing

(* _logo_path                                                                *)
LogoShown == event.include /\ event.logo # Missing

(* thumbnail_image(w, height=h, size="down")                                 *)
Thumbnail(image, box) ==
  LET scale == ContainScale(image, box)
      down == IF Less(<<1, 1>>, scale) THEN <<1, 1>> ELSE scale
  IN Resize(image, down, down)

(* One overlay: what is composited for it, possibly nothing.                 *)
Drawn(k, overlay) ==
  CASE overlay.type = "image" ->
         <<Layer("image", k, overlay.x, overlay.y, <<overlay.w, overlay.h>>, Whole)>>
    [] overlay.type = "logo" ->
         LET size == Thumbnail(event.logo, overlay) IN
         IF ~LogoShown THEN <<>>
         ELSE <<Layer("logo", k, overlay.x + overlay.w - size[1],
                      overlay.y + overlay.h - size[2], size, Whole)>>
    [] overlay.type = "text" ->
         <<Layer("text", k,
                 Anchored(overlay.side[1], template.w, overlay.size[1]) + overlay.x,
                 Anchored(overlay.side[2], template.h, overlay.size[2]) + overlay.y,
                 overlay.size, Whole)>>
-----------------------------------------------------------------------------
Start(v, images) ==
  /\ variant' = v /\ sources' = images
  /\ phase' = "load" /\ layers' = <<>> /\ overlays' = 0 /\ output' = Missing
  /\ UNCHANGED <<template, event, previewed>>

(* POST /admin/templates/{name}/preview: the sample in every slot.           *)
RenderPreview ==
  /\ variant = "none"
  /\ Start("web", [i \in DOMAIN template.slots |-> Sample])

(* SessionManager._finalize_capture: a guest's shots; the template may have  *)
(* been exchanged since arm() counted its slots, and files been deleted.     *)
RenderPrint ==
  /\ variant = "none" \/ (variant = "web" /\ phase \in {"done", "failed"})
  /\ \E shots \in Shoots : Start("print", shots)

Ends(how) ==
  /\ phase' = how
  /\ previewed' = IF variant = "web" THEN how ELSE previewed
  /\ UNCHANGED <<inputs, layers, overlays>>

(* load_template, and the two checks before anything is drawn.               *)
Loads ==
  /\ \A i \in DOMAIN template.slots :
       LET s == template.slots[i] IN s.x + s.w <= template.w /\ s.y + s.h <= template.h
  /\ template.assets

LoadTemplate ==
  /\ phase = "load" /\ Loads /\ Len(sources) = Len(template.slots)
  /\ phase' = "slots"
  /\ UNCHANGED <<inputs, layers, overlays, output, previewed>>

LoadFails ==
  /\ phase = "load" /\ (Loads => Len(sources) # Len(template.slots))
  /\ Ends("failed") /\ UNCHANGED output

(* _composite: the pictures in slot order ...                                *)
SlotNumber == Len(layers) + 1
Pasted(i) ==
  UNION {ResizeForSlot(i, image, template.slots[i]) : image \in {sources[i]} \ {Missing}}

PlaceSlot ==
  /\ phase = "slots"
  /\ \E l \in Pasted(SlotNumber) : layers' = Append(layers, l)
  /\ phase' = IF SlotNumber = Len(template.slots) THEN "overlays" ELSE "slots"
  /\ UNCHANGED <<inputs, overlays, output, previewed>>

(* ... (a picture that cannot be read, or a crop outside of it, raises) ...  *)
SlotFails ==
  /\ phase = "slots" /\ Pasted(SlotNumber) = {}
  /\ Ends("failed") /\ UNCHANGED output

(* ... then the overlays in their order, until a text names a variable that  *)
(* the event does not have.                                                  *)
Resolved(k) ==
  template.overlays[k].type = "text" => template.overlays[k].vars \subseteq event.vars

NextOverlay(k) == phase = "overlays" /\ k = overlays + 1 /\ k <= Len(template.overlays)

PlaceOverlay ==
  /\ \E k \in DOMAIN template.overlays :
       /\ NextOverlay(k) /\ Resolved(k)
       /\ layers' = layers \o Drawn(k, template.overlays[k])
       /\ overlays' = k
  /\ UNCHANGED <<inputs, phase, output, previewed>>

OverlayFails ==
  /\ \E k \in DOMAIN template.overlays : NextOverlay(k) /\ ~Resolved(k)
  /\ Ends("failed") /\ UNCHANGED output

(* The print keeps the canvas, the other variants are scaled to a long edge. *)
Encode ==
  /\ phase = "overlays" /\ overlays = Len(template.overlays)
  /\ output' = LET canvas == <<template.w, template.h>>
                   scale == ContainScale(canvas, [w |-> template.edge, h |-> template.edge])
               IN IF variant = "print" THEN canvas ELSE Resize(canvas, scale, scale)
  /\ Ends("done")

Next ==
  \/ RenderPreview \/ RenderPrint \/ LoadTemplate \/ LoadFails \/ PlaceSlot \/ SlotFails
  \/ PlaceOverlay \/ OverlayFails \/ Encode

Spec == Init /\ [][Next]_vars
-----------------------------------------------------------------------------
Near(a, b) == a - b \in -1 .. 1

(* The cut, doubled, is less than two pixels off the exact length n / d.     *)
Middle(length, n, d) == length * d - n \in 1 - 2 * d .. 2 * d - 1

(* Every picture is inside its slot and is the picture of that slot.  Fill   *)
(* and cover leave no pixel of the slot empty, and cover cuts nothing but as *)
(* much off one side as off the opposite one, all but a pixel; contain       *)
(* reaches two opposite edges and leaves equal borders at the others         *)
(* (compositor.py:77-102).                                                   *)
PicturesFit ==
  \A i \in DOMAIN layers : layers[i].what = "slot" =>
    LET l == layers[i]
        s == template.slots[i]
        p == sources[i]
        left == l.x - s.x  right == (s.x + s.w) - (l.x + l.w)
        top == l.y - s.y  bottom == (s.y + s.h) - (l.y + l.h)
    IN /\ l.of = i
       /\ left >= 0 /\ right >= 0 /\ top >= 0 /\ bottom >= 0
       /\ Near(left, right) /\ Near(top, bottom)
       /\ s.fit = "contain" => (left = 0 /\ right = 0) \/ (top = 0 /\ bottom = 0)
       /\ s.fit # "contain" => {left, right, top, bottom} = {0}
       /\ s.fit = "cover" =>
            \/ l.cut[1] = 0 /\ Middle(s.h + 2 * l.cut[2], p[2] * s.w, p[1])
            \/ l.cut[2] = 0 /\ Middle(s.w + 2 * l.cut[1], p[1] * s.h, p[2])

(* The operator's preview stands for the guests' prints: a template that it  *)
(* rendered also renders for pictures of any other size and orientation, so  *)
(* a capture never ends in a render error that the preview would not have    *)
(* shown (admin.py:536-563, session.py:289-302).                             *)
PreviewPredictsPrint ==
  (/\ variant = "print" /\ previewed = "done"
   /\ Len(sources) = Len(template.slots)
   /\ \A i \in DOMAIN sources : sources[i] # Missing) => phase # "failed"

(* A finished composite has every picture under every overlay, each overlay  *)
(* once and in its order, and the logo exactly when the event wants it on    *)
(* prints: in the lower right corner of its box, inside it and not enlarged. *)
(* Only the print has the size of the canvas (compositor.py:192-294).        *)
CompositeComplete ==
  LET Drawable == {k \in DOMAIN template.overlays :
                     template.overlays[k].type = "logo" =>
                       event.include /\ event.logo # Missing}
      slots == Len(template.slots)
  IN phase = "done" =>
       /\ {layers[i].of : i \in slots + 1 .. Len(layers)} = Drawable
       /\ \A i \in DOMAIN layers : layers[i].what = "slot" <=> i <= slots
       /\ \A i, j \in slots + 1 .. Len(layers) : i < j => layers[i].of < layers[j].of
       /\ \A i \in DOMAIN layers : layers[i].what = "logo" =>
            LET l == layers[i]  box == template.overlays[l.of]
            IN /\ l.x >= box.x /\ l.x + l.w = box.x + box.w /\ l.w <= event.logo[1]
               /\ l.y >= box.y /\ l.y + l.h = box.y + box.h /\ l.h <= event.logo[2]
       /\ IF variant = "print" THEN output = <<template.w, template.h>>
          ELSE Max({output[1], output[2]}) = template.edge
=============================================================================
