---------------------------- MODULE MCVideoPath ----------------------------
(* Outputs with the cases the splitter tells apart: stuffed bytes, fill    *)
(* bytes before either marker, markers that are garbage, a torn last image.*)
(* Those with a fill byte before an EOI are there for the order alone.     *)
EXTENDS VideoPath

SOI == <<"FF", "D8">>
EOI == <<"FF", "D9">>
Plain == SOI \o <<"xx">> \o EOI

MCOutputs ==
    {\* garbage, an image with stuffed bytes and marker bytes, fill before the
     \* next SOI, a torn image
     <<"D8", "FF", "xx", "FF">> \o SOI \o <<"FF", "xx", "D9", "FF", "D8">> \o EOI
         \o <<"FF">> \o Plain \o SOI \o <<"FF">>,
     \* two fill bytes before a SOI, an EOI between the images, an image that is
     \* only markers
     EOI \o <<"FF", "FF">> \o Plain \o EOI \o SOI \o EOI \o <<"D9">>,
     \* a fill byte before the first EOI, an EOI between the images, and two
     \* fill bytes before the last EOI
     SOI \o <<"FF">> \o EOI \o Plain \o EOI \o SOI \o <<"FF", "FF">> \o EOI}

MCFrames == (0..25) \X (0..25)
=============================================================================
