------------------------------- MODULE Clients -------------------------------
(***************************************************************************)
(* The two clients, the web client in a browser tab and the mobile app.    *)
(* They are ports of each other, and the modules about a client describe   *)
(* both: `platform' selects what differs, and never changes.               *)
(***************************************************************************)

CONSTANTS Platforms,  \* the clients to check, "web" and "mobile"
          None

ASSUME PlatformsAssumption == Platforms \subseteq {"web", "mobile"}

VARIABLE platform

Web == platform = "web"
Mobile == platform = "mobile"
=============================================================================
