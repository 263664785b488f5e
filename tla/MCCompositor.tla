---------------------------- MODULE MCCompositor ----------------------------
(* Instances of Compositor: every slot and picture up to a few pixels, so    *)
(* that every combination of shapes, and every rounding, occurs.             *)
EXTENDS Compositor

CONSTANTS MaxSlot, MaxPicture

Logo == [type |-> "logo", x |-> 3, y |-> 1, w |-> 2, h |-> 3]
Frame == [type |-> "image", x |-> 0, y |-> 0, w |-> 6, h |-> 5]
Title == [type |-> "text", side |-> <<0, 1>>, x |-> 0, y |-> -1, size |-> <<3, 1>>,
          vars |-> {"title"}]
Names == [type |-> "text", side |-> <<1, -1>>, x |-> -1, y |-> 0, size |-> <<2, 1>>,
          vars |-> {"couple"}]

Slot(x, y, w, h, fit) == [x |-> x, y |-> y, w |-> w, h |-> h, fit |-> fit]
Template(slots, drawings, assets) ==
  [w |-> 6, h |-> 5, slots |-> slots, overlays |-> drawings, assets |-> assets, edge |-> 4]

Fits == {"cover", "contain", "fill"}
OneSlot == {Template(<<Slot(1, 0, w, h, fit)>>, <<>>, TRUE) :
              w \in 1 .. MaxSlot, h \in 1 .. MaxSlot, fit \in Fits}
Strip(drawings, assets) ==
  Template(<<Slot(0, 0, 3, 5, "cover"), Slot(3, -1, 3, 4, "contain")>>, drawings, assets)
AllTemplates ==
  OneSlot \cup {Strip(o, TRUE) : o \in {<<Frame, Logo>>, <<Logo, Title>>, <<Title, Names>>}}
          \cup {Strip(<<Frame>>, FALSE)}

UpTo(n) == (1 .. n) \X (1 .. n)
Event(logo, include, variables) == [logo |-> logo, include |-> include, vars |-> variables]
AllEvents == {Event(Missing, TRUE, {"title", "couple"}), Event(<<1, 2>>, TRUE, {"title"}),
              Event(<<5, 3>>, TRUE, {"title"}), Event(<<2, 7>>, FALSE, {"title"})}
AllShoots == {<<p>> : p \in UpTo(MaxPicture) \cup {Missing}}
             \cup {<<p, q>> : p \in {<<3, 2>>, <<2, 3>>}, q \in {<<3, 2>>, <<5, 5>>, Missing}}
FixtureSize == <<3, 2>>
=============================================================================
