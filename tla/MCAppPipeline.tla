--------------------------- MODULE MCAppPipeline ---------------------------
(* Two specs of one container, so that the second meets what the first one  *)
(* left; two process types, so that the loop over them can fail between     *)
(* them; two instances, as revisions.go asks for.                           *)
EXTENDS AppPipeline

const_Scenarios == {"package", "droplet"}
const_Types == {"web", "worker"}
=============================================================================
