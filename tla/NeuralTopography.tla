--------------------------- MODULE NeuralTopography ---------------------------
(***************************************************************************)
(* The animated background (NeuralTopographyBackground, App.jsx): an       *)
(* effect that runs again on every change of theme, and what each of its   *)
(* runs leaves in the browser.  Vertices, noise, camera and pointer are    *)
(* abstracted.                                                             *)
(***************************************************************************)
EXTENDS Naturals

CONSTANT MaxBackgrounds     \* bound: runs of the effect

VARIABLE topography

Events == {"resize", "mousemove", "touchmove", "touchstart"}

\* A run of the effect, with the isDark that it closed over.
Runs == [run : Nat, isDark : BOOLEAN]

Topographies ==
  [last      : Runs,                   \* the latest run, 0 before the first
   canvases  : SUBSET Runs,            \* renderer.domElement in the container
   renderers : SUBSET Runs,            \* renderers not disposed of
   listeners : SUBSET (Runs \X Events),\* on window
   frames    : SUBSET Runs,            \* animate scheduled for the next frame
   painted   : Runs]                   \* whose scene was rendered last

TopographyTypeOK == topography \in Topographies

TopographyInit ==
  LET none == [run |-> 0, isDark |-> TRUE]
  IN  topography = [last |-> none, canvases |-> {}, renderers |-> {},
                    listeners |-> {}, frames |-> {}, painted |-> none]

\* The body of the effect: it ends with a first animate() and the listeners.
SetUp(t, dark) ==
  LET r == [run |-> t.last.run + 1, isDark |-> dark]
  IN  [last      |-> r,
       canvases  |-> t.canvases \cup {r},
       renderers |-> t.renderers \cup {r},
       listeners |-> t.listeners \cup ({r} \X Events),
       frames    |-> t.frames \cup {r},
       painted   |-> r]

\* Mutant: a cleanup without cancelAnimationFrame.
CleanUpKeepsAnimating(t) ==
  [t EXCEPT !.listeners = @ \ ({t.last} \X Events),
            !.renderers = @ \ {t.last},
            !.canvases  = @ \ {t.last}]

CleanUp(t) ==
  [t EXCEPT !.listeners = @ \ ({t.last} \X Events),
            !.frames    = @ \ {t.last},
            !.renderers = @ \ {t.last},
            !.canvases  = @ \ {t.last}]

\* First render: StrictMode sets up, cleans up and sets up again.
MountBackground(dark, strict) ==
  topography' = IF strict THEN SetUp(CleanUp(SetUp(topography, dark)), dark)
                ELSE SetUp(topography, dark)

\* The dependency changed, or the module was replaced under the page.
RerunBackground(dark) ==
  /\ topography.last.run < MaxBackgrounds
  /\ topography' = SetUp(CleanUp(topography), dark)

\* animate, called back: schedules itself again and renders.
Animate(r) ==
  /\ r \in topography.frames
  /\ topography' = [topography EXCEPT !.frames = (@ \ {r}) \cup {r},
                                      !.painted = r]

\* What t has set up is exactly what the runs in rs need.
Holds(t, rs) ==
  /\ t.canvases = rs
  /\ t.renderers = rs
  /\ t.listeners = rs \X Events
  /\ t.frames = rs
=============================================================================
