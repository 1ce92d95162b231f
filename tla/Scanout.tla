------------------------------ MODULE Scanout -------------------------------
(***************************************************************************)
(* The compositor on real screens (crates/compositor): the software DRM     *)
(* backend (softdrm.rs; drm.rs has the same structure over a GPU) and what  *)
(* of the Wayland server's state it keeps in step (server.rs).              *)
(*                                                                         *)
(* One thread alternates between the event sources (udev, page flips, the   *)
(* session) and an iteration that lays the outputs out anew if a source     *)
(* said so, serves the clients and presents a frame on every output that    *)
(* is not waiting for its last one.  Monitors, graphics devices and the     *)
(* session come and go at any time; a udev event says only that something   *)
(* changed, and is handled later.                                           *)
(***************************************************************************)
EXTENDS Integers, FiniteSets

CONSTANTS
    Gpu, Crtc,
    Connector,  \* numbered in the order of their names
    OnGpu,      \* the device each connector and each CRTC belongs to
    Width,      \* of the monitor on each connector: its mode by its scale
    Dark,       \* no connector
    NoGpu,
    Named       \* the primary device by udev, if it names one

ASSUME ScanoutAssumption ==
    /\ OnGpu \in [Connector \cup Crtc -> Gpu]
    /\ IsFiniteSet(Crtc)
    /\ Connector \subseteq Nat /\ Width \in [Connector -> Nat \ {0}]
    /\ Dark \notin Connector /\ NoGpu \notin Gpu /\ Named \in Gpu \cup {NoGpu}

VARIABLES
    plugged,      \* connectors with a monitor
    devices,      \* SoftBackend.devices
    primary,      \* the one whose outputs come first
    lit,          \* Device.surfaces: the connector each CRTC scans out to
    awaiting,     \* OutputSurface.pending: those waiting for a page flip
    flying,       \* CRTCs the kernel has a page flip in flight on
    damage,       \* those whose scene is not what was queued last
    active,       \* whether the session owns the devices
    dirty,        \* outputs_dirty
    mapped,       \* lit outputs in the shared space, and the x each starts at (the
                  \* placeholder lies in it at 0 for good, and no screen shows it)
    roam,         \* output_size: how far the pointer goes
    globals,      \* outputs with a wl_output global
    placeholder   \* whether the placeholder has one

frames   == <<awaiting, flying, damage>>
layout   == <<mapped, roam, placeholder>>
scene    == <<dirty, layout, globals>>
scanVars == <<plugged, devices, primary, lit, frames, active, scene>>

Output == Connector \X Crtc

ScanTypeOK ==
    /\ plugged \subseteq Connector /\ devices \subseteq Gpu
    /\ primary \in Gpu \cup {NoGpu}
    /\ lit \in [Crtc -> Connector \cup {Dark}]
    /\ awaiting \subseteq Crtc /\ flying \subseteq Crtc /\ damage \subseteq Crtc
    /\ active \in BOOLEAN /\ dirty \in BOOLEAN /\ placeholder \in BOOLEAN
    /\ globals \subseteq Output
    /\ DOMAIN mapped \subseteq Output /\ mapped \in [DOMAIN mapped -> Nat] /\ roam \in Nat

Lit == {c \in Crtc : lit[c] # Dark}
Outputs == {<<lit[c], c>> : c \in Lit}

\* Of the placeholder.
DefaultWidth == 1920

\* Compositor::new and setup, before any device.
ScanInit ==
    /\ plugged \in SUBSET Connector
    /\ devices = {} /\ primary = Named
    /\ lit = [c \in Crtc |-> Dark]
    /\ awaiting = {} /\ flying = {} /\ damage = {}
    /\ active = TRUE /\ dirty = FALSE
    /\ mapped = [o \in {} |-> 0] /\ roam = DefaultWidth /\ globals = {} /\ placeholder = TRUE

-----------------------------------------------------------------------------
(* Monitors and devices.                                                   *)

\* The lit set becomes this: outputs that go dark lose their global, new ones
\* get one and a first frame.
Relit(new) ==
    LET fresh == {c \in Crtc : new[c] # Dark /\ new[c] # lit[c]}
        gone  == {c \in Crtc : lit[c] # Dark /\ new[c] # lit[c]}
    IN  /\ lit' = new
        /\ globals' = (globals \ {<<lit[c], c>> : c \in gone}) \cup {<<new[c], c>> : c \in fresh}
        /\ awaiting' = awaiting \ (fresh \cup gone)
        /\ damage' = (damage \ gone) \cup fresh

\* scan_connectors, what it lights: connectors that are not lit, each on a CRTC
\* that was free before those that are unplugged go dark.  One without a mode, a
\* CRTC or a surface stays dark.
Pairings(g, connected) ==
    {chosen \in SUBSET ((connected \ {lit[c] : c \in Lit}) \X {c \in Crtc \ Lit : OnGpu[c] = g}) :
        \A p, q \in chosen : p[1] = q[1] \/ p[2] = q[2] => p = q}

\* The device's CRTCs then: those lit anew, and without those whose connector is
\* gone.
Rescanned(g, connected, chosen) ==
    [c \in Crtc |->
        IF \E k \in connected : <<k, c>> \in chosen
        THEN CHOOSE k \in connected : <<k, c>> \in chosen
        ELSE IF OnGpu[c] = g /\ lit[c] \notin connected THEN Dark ELSE lit[c]]

\* A connector that cannot be read counts as unplugged.
ScanConnectors(g) ==
    \E connected \in SUBSET {k \in plugged : OnGpu[k] = g} :
        \E chosen \in Pairings(g, connected) :
            /\ Relit(Rescanned(g, connected, chosen))
            /\ dirty' = (dirty \/ Rescanned(g, connected, chosen) # lit)

\* A monitor comes or goes.
Plug(k) ==
    /\ plugged' = IF k \in plugged THEN plugged \ {k} ELSE plugged \cup {k}
    /\ UNCHANGED <<devices, primary, lit, frames, active, scene>>

\* device_added, or nothing if the device cannot be opened.
DeviceAdded(g) ==
    /\ g \notin devices
    /\ devices' = devices \cup {g}
    /\ primary' = IF primary = NoGpu THEN g ELSE primary
    /\ ScanConnectors(g)
    /\ UNCHANGED <<plugged, flying, active, layout>>

\* Another device, any, is the primary one when that goes.
Succeed(g) ==
    IF primary # g THEN UNCHANGED primary
    ELSE primary' \in IF devices = {g} THEN {NoGpu} ELSE devices \ {g}

\* Wrong: only a scan of the connectors asks for a new layout.
DeviceRemovedQuietly(g) ==
    /\ g \in devices
    /\ devices' = devices \ {g}
    /\ Succeed(g)
    /\ Relit([c \in Crtc |-> IF OnGpu[c] = g THEN Dark ELSE lit[c]])
    /\ flying' = {c \in flying : OnGpu[c] # g}
    /\ UNCHANGED <<plugged, active, dirty, layout>>

DeviceRemoved(g) ==
    /\ g \in devices
    /\ devices' = devices \ {g}
    /\ Succeed(g)
    /\ Relit([c \in Crtc |-> IF OnGpu[c] = g THEN Dark ELSE lit[c]])
    /\ flying' = {c \in flying : OnGpu[c] # g}
    /\ dirty' = TRUE
    /\ UNCHANGED <<plugged, active, layout>>

\* device_changed, at any time after a change, or without one; the device's
\* resources may not be readable.
DeviceChanged(g) ==
    /\ g \in devices
    /\ \/ ScanConnectors(g)
       \/ UNCHANGED <<lit, globals, awaiting, damage, dirty>>
    /\ UNCHANGED <<plugged, devices, primary, flying, active, layout>>

-----------------------------------------------------------------------------
(* Page flips and the session.                                             *)

\* DrmEvent::VBlank.  It may be that of an output that was dropped since, on
\* the CRTC another one has now.
VBlank(c) ==
    /\ c \in flying
    /\ flying' = flying \ {c}
    /\ awaiting' = awaiting \ {c}
    /\ UNCHANGED <<plugged, devices, primary, lit, damage, active, scene>>

\* SessionEvent::PauseSession.  Flips in flight may never be heard of.
PauseSession ==
    /\ active
    /\ active' = FALSE
    /\ flying' \in SUBSET flying
    /\ UNCHANGED <<plugged, devices, primary, lit, awaiting, damage, scene>>

\* Wrong: an output still waits for the flip it waited for before the pause.
ActivateWaiting ==
    /\ ~ active
    /\ active' = TRUE
    /\ damage' = Lit
    /\ UNCHANGED <<plugged, devices, primary, lit, awaiting, flying, scene>>

\* SessionEvent::ActivateSession: every swapchain is reset.
ActivateSession ==
    /\ ~ active
    /\ active' = TRUE
    /\ damage' = Lit
    /\ awaiting' = {}
    /\ UNCHANGED <<plugged, devices, primary, lit, flying, scene>>

-----------------------------------------------------------------------------
(* The iteration.                                                          *)

\* A client commits, or the shell sets its background.
Redraw(c) ==
    /\ c \in Lit \ damage
    /\ damage' = damage \cup {c}
    /\ UNCHANGED <<plugged, devices, primary, lit, awaiting, flying, active, scene>>

\* Those of the primary device first, then by name.
LeftOf(o, p) ==
    LET first(q) == primary = OnGpu[q[1]]
    IN  IF first(o) = first(p) THEN o[1] < p[1] ELSE first(o)

\* layout::arrange and span, of what is lit: these outputs side by side take as
\* many columns as they have.
Columns(os) == UNION {{o} \X (1 .. Width[o[1]]) : o \in os}
Total(os) == Cardinality(Columns(os))
Arranged == [o \in Outputs |-> Total({p \in Outputs : LeftOf(p, o)})]
Span == Total(Outputs)

\* relayout.
Relayout ==
    /\ IF dirty
       THEN /\ mapped' = Arranged
            /\ roam' = IF Span = 0 THEN 1 ELSE Span
            /\ placeholder' = (Outputs = {})
       ELSE UNCHANGED layout
    /\ dirty' = FALSE
    /\ UNCHANGED globals

\* render_all: what is damaged, or was laid out anew, is queued; the kernel
\* takes no flip on a CRTC that still has one in flight.  That a frame otherwise
\* fails to render or to be queued is left out.
RenderAll ==
    LET stale == IF dirty THEN Lit ELSE damage
        ready == IF active THEN stale \ (awaiting \cup flying) ELSE {}
    IN  /\ awaiting' = awaiting \cup ready
        /\ flying' = flying \cup ready
        /\ damage' = stale \ ready

\* One turn of the loop in run, after its event sources.
Iterate ==
    /\ Relayout
    /\ RenderAll
    /\ UNCHANGED <<plugged, devices, primary, lit, active>>

ScanNext ==
    \/ \E k \in Connector : Plug(k)
    \/ \E g \in Gpu : DeviceAdded(g) \/ DeviceRemoved(g) \/ DeviceChanged(g)
    \/ \E c \in Crtc : VBlank(c) \/ Redraw(c)
    \/ PauseSession \/ ActivateSession \/ Iterate

ScanSpec == ScanInit /\ [][ScanNext]_scanVars

\* The loop runs and flips complete.
ScanFair ==
    /\ WF_scanVars(Iterate)
    /\ \A c \in Crtc : WF_scanVars(VBlank(c))

-----------------------------------------------------------------------------

\* What the next dispatch of the clients shows them is what is lit, whatever was
\* plugged, unplugged or removed, in whatever order, since the last one: one
\* global for each lit output; and, unless a layout is due, the lit outputs side
\* by side without a gap over what the pointer roams, those of the primary
\* device first, and the placeholder, "so a client still sees one screen",
\* exactly when nothing is lit.
ClientsSeeScreens ==
    /\ globals = Outputs
    /\ ~ dirty =>
        /\ DOMAIN mapped = Outputs
        /\ placeholder <=> Outputs = {}
        /\ Outputs # {} =>
            \A x \in 0 .. roam :
                Cardinality({o \in Outputs : x \in mapped[o] .. mapped[o] + Width[o[1]] - 1})
                    = (IF x < roam THEN 1 ELSE 0)
        /\ \A o, p \in Outputs :
            OnGpu[o[1]] = primary /\ mapped[o] > mapped[p] => OnGpu[p[1]] = primary

\* No output freezes: what is damaged is presented, or goes dark, or the
\* session is switched away; also after it was switched away during a flip.
ScreensRepaint ==
    \A c \in Crtc : c \in damage /\ active ~> c \notin damage \/ ~ active
=============================================================================
