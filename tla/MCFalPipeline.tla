--------------------------- MODULE MCFalPipeline ---------------------------
EXTENDS FalPipeline

CONSTANTS Kit, Video, Photo

\* Two jobs: a media kit, and a job with another ratio.
MCTasks == {Kit, Video}
MCJob == [t \in MCTasks |-> t]
MCService == [t \in MCTasks |-> IF t = Kit THEN "media_kit" ELSE "image_to_video"]
MCExpand == [t \in MCTasks |-> TRUE]

\* Three upscale jobs, in the run of ExhaustedMeans503.
Three == {Kit, Video, Photo}
ThreeJob == [t \in Three |-> t]
ThreeService == [t \in Three |-> "upscale"]
ThreeExpand == [t \in Three |-> FALSE]
=============================================================================
