--------------------------- MODULE SoftwareColours ---------------------------
(***************************************************************************)
(* How a program on this board gets colours of sixteen bits: by the names  *)
(* of simple_graphics.h, by its macro for colours of three bytes, and by   *)
(* the macros of the RGB resampler's driver, which make a colour wider or  *)
(* narrower.  ColourPath is what the hardware does to the colour then.     *)
(* The tables of names are the header's, name for name.                    *)
(***************************************************************************)
EXTENDS ColourPath

CONSTANT Colours24        \* colours of three bytes the program may ask for

ASSUME Colours24Assumption == Colours24 \subseteq 0..2^24-1

VARIABLES
  RGB,                    \* the switch of simple_graphics.h, 1 as it is set
  meant,                  \* history: the colour stream_in_data should show
  way                     \* history: and how it was made

softwareColourVars == <<colourVars, RGB, meant, way>>

-----------------------------------------------------------------------------
(* The names: NAME_16 and NAME_24 with RGB set to 1, and with RGB set to   *)
(* anything else.  Not every name is in both tables of a setting.          *)

Names16 ==
  [ALICEBLUE |-> \hFFDE, ANTIQUEWHITE |-> \hD75F, AQUA |-> \hFFC0,
   AQUAMARINE |-> \hD7CF, AZURE |-> \hFFDE, BEIGE |-> \hDF9E, BISQUE |-> \hC71F,
   BLACK |-> \h0000, BLANCHEDALMOND |-> \hCF5F, BLUE |-> \hF800,
   BLUEVIOLET |-> \hE151, BROWN |-> \h2954, BURLYWOOD |-> \h85DB,
   CADETBLUE |-> \hA4CB, CHARTREUSE |-> \h07CF, CHOCOLATE |-> \h1B5A,
   CORAL |-> \h53DF, CORNFLOWERBLUE |-> \hEC8C, CORNSILK |-> \hDFDF,
   CRIMSON |-> \h389B, CYAN |-> \hFFC0, DARKBLUE |-> \h8800, DARKCYAN |-> \h8C40,
   DARKGOLDENROD |-> \h0C17, DARKGRAY |-> \hAD55, DARKGREEN |-> \h0300,
   DARKKHAKI |-> \h6D97, DARKMAGENTA |-> \h8811, DARKOLIVEGREEN |-> \h2B4A,
   DARKORANGE |-> \h045F, DARKORCHID |-> \hC993, DARKRED |-> \h0011,
   DARKSALMON |-> \h7C9D, DARKSEAGREEN |-> \h8DD1, DARKSLATEBLUE |-> \h89C9,
   DARKSLATEGRAY |-> \h4A45, DARKTURQUOISE |-> \hD640, DARKVIOLET |-> \hD012,
   DEEPPINK |-> \h909F, DEEPSKYBLUE |-> \hFDC0, DIMGRAY |-> \h6B4D,
   DODGERBLUE |-> \hFC83, FELDSPAR |-> \h749A, FIREBRICK |-> \h2116,
   FLORALWHITE |-> \hF7DF, FORESTGREEN |-> \h2444, FUCHSIA |-> \hF81F,
   GAINSBORO |-> \hDEDB, GHOSTWHITE |-> \hFFDF, GOLD |-> \h069F,
   GOLDENROD |-> \h251B, GRAY |-> \h8410, GRAY25 |-> \h4208, GRAY50 |-> \h7BCF,
   GRAY75 |-> \hC618, GREEN |-> \h0400, GREENYELLOW |-> \h2FD5,
   HONEYDEW |-> \hF7DE, HOTPINK |-> \hB35F, INDIANRED |-> \h5AD9,
   INDIGO |-> \h8009, IVORY |-> \hF7DF, KHAKI |-> \h8F1E, LAVENDER |-> \hFF1C,
   LAVENDERBLUSH |-> \hF79F, LAWNGREEN |-> \h07CF, LEMONCHIFFON |-> \hCFDF,
   LIGHTBLUE |-> \hE6D5, LIGHTCORAL |-> \h841E, LIGHTCYAN |-> \hFFDC,
   LIGHTGOLDENRODYELLOW |-> \hD7DF, LIGHTGREEN |-> \h9752, LIGHTGREY |-> \hD69A,
   LIGHTPINK |-> \hC59F, LIGHTSALMON |-> \h7D1F, LIGHTSEAGREEN |-> \hAD84,
   LIGHTSKYBLUE |-> \hFE50, LIGHTSLATEBLUE |-> \hFB90, LIGHTSLATEGRAY |-> \h9C4E,
   LIGHTSTEELBLUE |-> \hDE16, LIGHTYELLOW |-> \hE7DF, LIME |-> \h07C0,
   LIMEGREEN |-> \h3646, LINEN |-> \hE79F, MAGENTA |-> \hF81F, MAROON |-> \h0010,
   MEDIUMAQUAMARINE |-> \hAE4C, MEDIUMBLUE |-> \hC800, MEDIUMORCHID |-> \hD297,
   MEDIUMPURPLE |-> \hDB92, MEDIUMSEAGREEN |-> \h7587, MEDIUMSLATEBLUE |-> \hEB4F,
   MEDIUMSPRINGGREEN |-> \h9FC0, MEDIUMTURQUOISE |-> \hCE89,
   MEDIUMVIOLETRED |-> \h8098, MIDNIGHTBLUE |-> \h70C3, MINTCREAM |-> \hFFDE,
   MISTYROSE |-> \hE71F, MOCCASIN |-> \hB71F, NAVAJOWHITE |-> \hAEDF,
   NAVY |-> \h8000, OLDLACE |-> \hE79F, OLIVE |-> \h0410, OLIVEDRAB |-> \h244D,
   ORANGE |-> \h051F, ORANGERED |-> \h021F, ORCHID |-> \hD39B,
   PALEGOLDENROD |-> \hAF5D, PALEGREEN |-> \h9FD3, PALETURQUOISE |-> \hEF55,
   PALEVIOLETRED |-> \h939B, PAPAYAWHIP |-> \hD75F, PEACHPUFF |-> \hBEDF,
   PERU |-> \h3C19, PINK |-> \hCE1F, PLUM |-> \hDD1B, POWDERBLUE |-> \hE716,
   PURPLE |-> \h8010, RED |-> \h001F, ROSYBROWN |-> \h8C57, ROYALBLUE |-> \h9080,
   SADDLEBROWN |-> \h1211, SALMON |-> \h741F, SANDYBROWN |-> \h651E,
   SEAGREEN |-> \h5445, SEASHELL |-> \hEF9F, SIENNA |-> \h2A94, SILVER |-> \hC618,
   SKYBLUE |-> \hEE50, SLATEBLUE |-> \hCACD, SLATEGRAY |-> \h940E, SNOW |-> \hFFDF,
   SPRINGGREEN |-> \h7FC0, STEELBLUE |-> \hB408, TAN |-> \h8D9A, TEAL |-> \h8400,
   THISTLE |-> \hDDDB, TOMATO |-> \h431F, TURQUOISE |-> \hD708, VIOLET |-> \hEC1D,
   VIOLETRED |-> \h911A, WHEAT |-> \hB6DE, WHITE |-> \hFFDF, WHITESMOKE |-> \hF79E,
   YELLOW |-> \h07DF, YELLOWGREEN |-> \h3653]

Names24 ==
  [ALICEBLUE |-> \hF0F8FF, ANTIQUEWHITE |-> \hFAEBD7, AQUA |-> \h00FFFF,
   AQUAMARINE |-> \h7FFFD4, AZURE |-> \hF0FFFF, BEIGE |-> \hF5F5DC,
   BISQUE |-> \hFFE4C4, BLACK |-> \h000000, BLANCHEDALMOND |-> \hFFEBCD,
   BLUE |-> \h0000FF, BLUEVIOLET |-> \h8A2BE2, BROWN |-> \hA52A2A,
   BURLYWOOD |-> \hDEB887, CADETBLUE |-> \h5F9EA0, CHARTREUSE |-> \h7FFF00,
   CHOCOLATE |-> \hD2691E, CORAL |-> \hFF7F50, CORNFLOWERBLUE |-> \h6495ED,
   CORNSILK |-> \hFFF8DC, CRIMSON |-> \hDC143C, CYAN |-> \h00FFFF,
   DARKBLUE |-> \h00008B, DARKCYAN |-> \h008B8B, DARKGOLDENROD |-> \hB8860B,
   DARKGRAY |-> \hA9A9A9, DARKGREY |-> \hA9A9A9, DARKGREEN |-> \h006400,
   DARKKHAKI |-> \hBDB76B, DARKMAGENTA |-> \h8B008B, DARKOLIVEGREEN |-> \h556B2F,
   DARKORANGE |-> \hFF8C00, DARKORCHID |-> \h9932CC, DARKRED |-> \h8B0000,
   DARKSALMON |-> \hE9967A, DARKSEAGREEN |-> \h8FBC8F, DARKSLATEBLUE |-> \h483D8B,
   DARKSLATEGRAY |-> \h2F4F4F, DARKSLATEGREY |-> \h2F4F4F,
   DARKTURQUOISE |-> \h00CED1, DARKVIOLET |-> \h9400D3, DEEPPINK |-> \hFF1493,
   DEEPSKYBLUE |-> \h00BFFF, DIMGRAY |-> \h696969, DIMGREY |-> \h696969,
   DODGERBLUE |-> \h1E90FF, FIREBRICK |-> \hB22222, FLORALWHITE |-> \hFFFAF0,
   FORESTGREEN |-> \h228B22, FUCHSIA |-> \hFF00FF, GAINSBORO |-> \hDCDCDC,
   GHOSTWHITE |-> \hF8F8FF, GOLD |-> \hFFD700, GOLDENROD |-> \hDAA520,
   GRAY |-> \h808080, GREY |-> \h808080, GREEN |-> \h008000,
   GREENYELLOW |-> \hADFF2F, HONEYDEW |-> \hF0FFF0, HOTPINK |-> \hFF69B4,
   INDIANRED |-> \hCD5C5C, INDIGO |-> \h4B0082, IVORY |-> \hFFFFF0,
   KHAKI |-> \hF0E68C, LAVENDER |-> \hE6E6FA, LAVENDERBLUSH |-> \hFFF0F5,
   LAWNGREEN |-> \h7CFC00, LEMONCHIFFON |-> \hFFFACD, LIGHTBLUE |-> \hADD8E6,
   LIGHTCORAL |-> \hF08080, LIGHTCYAN |-> \hE0FFFF,
   LIGHTGOLDENRODYELLOW |-> \hFAFAD2, LIGHTGRAY |-> \hD3D3D3,
   LIGHTGREY |-> \hD3D3D3, LIGHTGREEN |-> \h90EE90, LIGHTPINK |-> \hFFB6C1,
   LIGHTSALMON |-> \hFFA07A, LIGHTSEAGREEN |-> \h20B2AA, LIGHTSKYBLUE |-> \h87CEFA,
   LIGHTSLATEGRAY |-> \h778899, LIGHTSLATEGREY |-> \h778899,
   LIGHTSTEELBLUE |-> \hB0C4DE, LIGHTYELLOW |-> \hFFFFE0, LIME |-> \h00FF00,
   LIMEGREEN |-> \h32CD32, LINEN |-> \hFAF0E6, MAGENTA |-> \hFF00FF,
   MAROON |-> \h800000, MEDIUMAQUAMARINE |-> \h66CDAA, MEDIUMBLUE |-> \h0000CD,
   MEDIUMORCHID |-> \hBA55D3, MEDIUMPURPLE |-> \h9370D8,
   MEDIUMSEAGREEN_24 |-> \h3CB371, MEDIUMSLATEBLUE |-> \h7B68EE,
   MEDIUMSPRINGGREEN |-> \h00FA9A, MEDIUMTURQUOISE |-> \h48D1CC,
   MEDIUMVIOLETRED |-> \hC71585, MIDNIGHTBLUE |-> \h191970, MINTCREAM |-> \hF5FFFA,
   MISTYROSE |-> \hFFE4E1, MOCCASIN |-> \hFFE4B5, NAVAJOWHITE |-> \hFFDEAD,
   NAVY |-> \h000080, OLDLACE |-> \hFDF5E6, OLIVE |-> \h808000,
   OLIVEDRAB |-> \h6B8E23, ORANGE |-> \hFFA500, ORANGERED |-> \hFF4500,
   ORCHID |-> \hDA70D6, PALEGOLDENROD |-> \hEEE8AA, PALEGREEN |-> \h98FB98,
   PALETURQUOISE |-> \hAFEEEE, PALEVIOLETRED |-> \hD87093, PAPAYAWHIP |-> \hFFEFD5,
   PEACHPUFF |-> \hFFDAB9, PERU |-> \hCD853F, PINK |-> \hFFC0CB, PLUM |-> \hDDA0DD,
   POWDERBLUE |-> \hB0E0E6, PURPLE |-> \h800080, RED |-> \hFF0000,
   ROSYBROWN |-> \hBC8F8F, ROYALBLUE |-> \h4169E1, SADDLEBROWN |-> \h8B4513,
   SALMON |-> \hFA8072, SANDYBROWN |-> \hF4A460, SEAGREEN |-> \h2E8B57,
   SEASHELL |-> \hFFF5EE, SIENNA |-> \hA0522D, SILVER |-> \hC0C0C0,
   SKYBLUE |-> \h87CEEB, SLATEBLUE |-> \h6A5ACD, SLATEGRAY |-> \h708090,
   SLATEGREY |-> \h708090, SNOW |-> \hFFFAFA, SPRINGGREEN |-> \h00FF7F,
   STEELBLUE |-> \h4682B4, TAN |-> \hD2B48C, TEAL |-> \h008080,
   THISTLE |-> \hD8BFD8, TOMATO |-> \hFF6347, TURQUOISE |-> \h40E0D0,
   VIOLET |-> \hEE82EE, WHEAT |-> \hF5DEB3, WHITE |-> \hFFFFFF,
   WHITESMOKE |-> \hF5F5F5, YELLOW |-> \hFFFF00, YELLOWGREEN |-> \h9ACD32]

BGRNames16 ==
  [ALICEBLUE |-> \hF7DF, ANTIQUEWHITE |-> \hFF5A, AQUA |-> \h07DF,
   AQUAMARINE |-> \h7FDA, AZURE |-> \hF7DF, BEIGE |-> \hF79B, BISQUE |-> \hFF18,
   BLACK |-> \h0000, BLANCHEDALMOND |-> \hFF59, BLUE |-> \h001F,
   BLUEVIOLET |-> \h895C, BROWN |-> \hA145, BURLYWOOD |-> \hDDD0,
   CADETBLUE |-> \h5CD4, CHARTREUSE |-> \h7FC0, CHOCOLATE |-> \hD343,
   CORAL |-> \hFBCA, CORNFLOWERBLUE |-> \h649D, CORNSILK |-> \hFFDB,
   CRIMSON |-> \hD887, CYAN |-> \h07DF, DARKBLUE |-> \h0011, DARKCYAN |-> \h0451,
   DARKGOLDENROD |-> \hBC01, DARKGRAY |-> \hAD55, DARKGREEN |-> \h0300,
   DARKKHAKI |-> \hBD8D, DARKMAGENTA |-> \h8811, DARKOLIVEGREEN |-> \h5345,
   DARKORANGE |-> \hFC40, DARKORCHID |-> \h9999, DARKRED |-> \h8800,
   DARKSALMON |-> \hEC8F, DARKSEAGREEN |-> \h8DD1, DARKSLATEBLUE |-> \h49D1,
   DARKSLATEGRAY |-> \h2A49, DARKTURQUOISE |-> \h065A, DARKVIOLET |-> \h901A,
   DEEPPINK |-> \hF892, DEEPSKYBLUE |-> \h05DF, DIMGRAY |-> \h6B4D,
   DODGERBLUE |-> \h1C9F, FELDSPAR |-> \hD48E, FIREBRICK |-> \hB104,
   FLORALWHITE |-> \hFFDE, FORESTGREEN |-> \h2444, FUCHSIA |-> \hF81F,
   GAINSBORO |-> \hDEDB, GHOSTWHITE |-> \hFFDF, GOLD |-> \hFE80,
   GOLDENROD |-> \hDD04, GRAY |-> \h8410, GRAY25 |-> \h4208, GRAY50 |-> \h7BCF,
   GRAY75 |-> \hC618, GREEN |-> \h0400, GREENYELLOW |-> \hAFC5,
   HONEYDEW |-> \hF7DE, HOTPINK |-> \hFB56, INDIANRED |-> \hCACB,
   INDIGO |-> \h4810, IVORY |-> \hFFDE, KHAKI |-> \hF711, LAVENDER |-> \hE71F,
   LAVENDERBLUSH |-> \hFF9E, LAWNGREEN |-> \h7FC0, LEMONCHIFFON |-> \hFFD9,
   LIGHTBLUE |-> \hAEDC, LIGHTCORAL |-> \hF410, LIGHTCYAN |-> \hE7DF,
   LIGHTGOLDENRODYELLOW |-> \hFFDA, LIGHTGREEN |-> \h9752, LIGHTGREY |-> \hD69A,
   LIGHTPINK |-> \hFD98, LIGHTSALMON |-> \hFD0F, LIGHTSEAGREEN |-> \h2595,
   LIGHTSKYBLUE |-> \h865F, LIGHTSLATEBLUE |-> \h839F, LIGHTSLATEGRAY |-> \h7453,
   LIGHTSTEELBLUE |-> \hB61B, LIGHTYELLOW |-> \hFFDC, LIME |-> \h07C0,
   LIMEGREEN |-> \h3646, LINEN |-> \hFF9C, MAGENTA |-> \hF81F, MAROON |-> \h8000,
   MEDIUMAQUAMARINE |-> \h6655, MEDIUMBLUE |-> \h0019, MEDIUMORCHID |-> \hBA9A,
   MEDIUMPURPLE |-> \h939B, MEDIUMSEAGREEN |-> \h3D8E, MEDIUMSLATEBLUE |-> \h7B5D,
   MEDIUMSPRINGGREEN |-> \h07D3, MEDIUMTURQUOISE |-> \h4E99,
   MEDIUMVIOLETRED |-> \hC090, MIDNIGHTBLUE |-> \h18CE, MINTCREAM |-> \hF7DF,
   MISTYROSE |-> \hFF1C, MOCCASIN |-> \hFF16, NAVAJOWHITE |-> \hFED5,
   NAVY |-> \h0010, OLDLACE |-> \hFF9C, OLIVE |-> \h8400, OLIVEDRAB |-> \h6C44,
   ORANGE |-> \hFD00, ORANGERED |-> \hFA00, ORCHID |-> \hDB9A,
   PALEGOLDENROD |-> \hEF55, PALEGREEN |-> \h9FD3, PALETURQUOISE |-> \hAF5D,
   PALEVIOLETRED |-> \hDB92, PAPAYAWHIP |-> \hFF5A, PEACHPUFF |-> \hFED7,
   PERU |-> \hCC07, PINK |-> \hFE19, PLUM |-> \hDD1B, POWDERBLUE |-> \hB71C,
   PURPLE |-> \h8010, RED |-> \hF800, ROSYBROWN |-> \hBC51, ROYALBLUE |-> \h0092,
   SADDLEBROWN |-> \h8A02, SALMON |-> \hFC0E, SANDYBROWN |-> \hF50C,
   SEAGREEN |-> \h2C4A, SEASHELL |-> \hFF9D, SIENNA |-> \hA285, SILVER |-> \hC618,
   SKYBLUE |-> \h865D, SLATEBLUE |-> \h6AD9, SLATEGRAY |-> \h7412, SNOW |-> \hFFDF,
   SPRINGGREEN |-> \h07CF, STEELBLUE |-> \h4416, TAN |-> \hD591, TEAL |-> \h0410,
   THISTLE |-> \hDDDB, TOMATO |-> \hFB08, TURQUOISE |-> \h471A, VIOLET |-> \hEC1D,
   VIOLETRED |-> \hD112, WHEAT |-> \hF6D6, WHITE |-> \hFFDF, WHITESMOKE |-> \hF79E,
   YELLOW |-> \hFFC0, YELLOWGREEN |-> \h9E46]

BGRNames24 ==
  [ALICEBLUE |-> \hFFF8F0, ANTIQUEWHITE |-> \hD7EBFA, AQUA |-> \hFFFF00,
   AQUAMARINE |-> \hD4FF7F, AZURE |-> \hFFFFF0, BEIGE |-> \hDCF5F5,
   BISQUE |-> \hC4E4FF, BLACK |-> \h000000, BLANCHEDALMOND |-> \hCDEBFF,
   BLUE |-> \hFF0000, BLUEVIOLET |-> \hE22B8A, BROWN |-> \h2A2AA5,
   BURLYWOOD |-> \h87B8DE, CADETBLUE |-> \hA09E5F, CHARTREUSE |-> \h00FF7F,
   CHOCOLATE |-> \h1E69D2, CORAL |-> \h507FFF, CORNFLOWERBLUE |-> \hED9564,
   CORNSILK |-> \hDCF8FF, CRIMSON |-> \h3C14DC, CYAN |-> \hFFFF00,
   DARKBLUE |-> \h8B0000, DARKCYAN |-> \h8B8B00, DARKGOLDENROD |-> \h0B86B8,
   DARKGRAY |-> \hA9A9A9, DARKGREEN |-> \h006400, DARKKHAKI |-> \h6BB7BD,
   DARKMAGENTA |-> \h8B008B, DARKOLIVEGREEN |-> \h2F6B55, DARKORANGE |-> \h008CFF,
   DARKORCHID |-> \hCC3299, DARKRED |-> \h00008B, DARKSALMON |-> \h7A96E9,
   DARKSEAGREEN |-> \h8FBC8F, DARKSLATEBLUE |-> \h8B3D48,
   DARKSLATEGRAY |-> \h4F4F2F, DARKTURQUOISE |-> \hD1CE00, DARKVIOLET |-> \hD30094,
   DEEPPINK |-> \h9314FF, DEEPSKYBLUE |-> \hFFBF00, DIMGRAY |-> \h696969,
   DODGERBLUE |-> \hFF901E, FELDSPAR |-> \h7592D1, FIREBRICK |-> \h2222B2,
   FLORALWHITE |-> \hF0FAFF, FORESTGREEN |-> \h228B22, FUCHSIA |-> \hFF00FF,
   GAINSBORO |-> \hDCDCDC, GHOSTWHITE |-> \hFFF8F8, GOLD |-> \h00D7FF,
   GOLDENROD |-> \h20A5DA, GRAY |-> \h808080, GREEN |-> \h008000,
   GREENYELLOW |-> \h2FFFAD, HONEYDEW |-> \hF0FFF0, HOTPINK |-> \hB469FF,
   INDIANRED |-> \h5C5CCD, INDIGO |-> \h82004B, IVORY |-> \hF0FFFF,
   KHAKI |-> \h8CE6F0, LAVENDER |-> \hFAE6E6, LAVENDERBLUSH |-> \hF5F0FF,
   LAWNGREEN |-> \h00FC7C, LEMONCHIFFON |-> \hCDFAFF, LIGHTBLUE |-> \hE6D8AD,
   LIGHTCORAL |-> \h8080F0, LIGHTCYAN |-> \hFFFFE0,
   LIGHTGOLDENRODYELLOW |-> \hD2FAFA, LIGHTGREEN |-> \h90EE90,
   LIGHTGREY |-> \hD3D3D3, LIGHTPINK |-> \hC1B6FF, LIGHTSALMON |-> \h7AA0FF,
   LIGHTSEAGREEN |-> \hAAB220, LIGHTSKYBLUE |-> \hFACE87,
   LIGHTSLATEBLUE |-> \hFF7084, LIGHTSLATEGRAY |-> \h998877,
   LIGHTSTEELBLUE |-> \hDEC4B0, LIGHTYELLOW |-> \hE0FFFF, LIME |-> \h00FF00,
   LIMEGREEN |-> \h32CD32, LINEN |-> \hE6F0FA, MAGENTA |-> \hFF00FF,
   MAROON |-> \h000080, MEDIUMAQUAMARINE |-> \hAACD66, MEDIUMBLUE |-> \hCD0000,
   MEDIUMORCHID |-> \hD355BA, MEDIUMPURPLE |-> \hD87093,
   MEDIUMSEAGREEN |-> \h71B33C, MEDIUMSLATEBLUE |-> \hEE687B,
   MEDIUMSPRINGGREEN |-> \h9AFA00, MEDIUMTURQUOISE |-> \hCCD148,
   MEDIUMVIOLETRED |-> \h8515C7, MIDNIGHTBLUE |-> \h701919, MINTCREAM |-> \hFAFFF5,
   MISTYROSE |-> \hE1E4FF, MOCCASIN |-> \hB5E4FF, NAVAJOWHITE |-> \hADDEFF,
   NAVY |-> \h800000, OLDLACE |-> \hE6F5FD, OLIVE |-> \h008080,
   OLIVEDRAB |-> \h238E6B, ORANGE |-> \h00A5FF, ORANGERED |-> \h0045FF,
   ORCHID |-> \hD670DA, PALEGOLDENROD |-> \hAAE8EE, PALEGREEN |-> \h98FB98,
   PALETURQUOISE |-> \hEEEEAF, PALEVIOLETRED |-> \h9370D8, PAPAYAWHIP |-> \hD5EFFF,
   PEACHPUFF |-> \hB9DAFF, PERU |-> \h3F85CD, PINK |-> \hCBC0FF, PLUM |-> \hDDA0DD,
   POWDERBLUE |-> \hE6E0B0, PURPLE |-> \h800080, RED |-> \h0000FF,
   ROSYBROWN |-> \h8F8FBC, ROYALBLUE |-> \h901604, SADDLEBROWN |-> \h13458B,
   SALMON |-> \h7280FA, SANDYBROWN |-> \h60A4F4, SEAGREEN |-> \h578B2E,
   SEASHELL |-> \hEEF5FF, SIENNA |-> \h2D52A0, SILVER |-> \hC0C0C0,
   SKYBLUE |-> \hEBCE87, SLATEBLUE |-> \hCD5A6A, SLATEGRAY |-> \h908070,
   SNOW |-> \hFAFAFF, SPRINGGREEN |-> \h7FFF00, STEELBLUE |-> \hB48246,
   TAN |-> \h8CB4D2, TEAL |-> \h808000, THISTLE |-> \hD8BFD8, TOMATO |-> \h4763FF,
   TURQUOISE |-> \hD0E040, VIOLET |-> \hEE82EE, VIOLETRED |-> \h9020D0,
   WHEAT |-> \hB3DEF5, WHITE |-> \hFFFFFF, WHITESMOKE |-> \hF5F5F5,
   YELLOW |-> \h00FFFF, YELLOWGREEN |-> \h32CD9A]

\* x points to the bytes of a colour, and the processor stores the low one first.
vid_color_convert24_16_m(x) ==
  Bits(x, 23, 19) + Bits(x, 15, 10) * 2^5 + Bits(x, 7, 3) * 2^11

-----------------------------------------------------------------------------
(* The resampler's driver.  Its macros for more bits have braces around    *)
(* them and can only initialise a variable.                                *)

RGB_16BIT_TO_8BIT(c) ==
  Bits(c, 15, 13) * 2^5 + Bits(c, 10, 8) * 2^2 + Bits(c, 4, 3)

RGB_24BIT_TO_8BIT(c) ==
  Bits(c, 23, 21) * 2^5 + Bits(c, 15, 13) * 2^2 + Bits(c, 7, 6)

\* Mutant: the low bits of green instead of the high ones.
RGB_24BIT_TO_16BIT_LowGreen(c) ==
  Bits(c, 23, 19) * 2^11 + Bits(c, 13, 8) * 2^5 + Bits(c, 7, 3)

RGB_24BIT_TO_16BIT(c) ==
  Bits(c, 23, 19) * 2^11 + Bits(c, 15, 10) * 2^5 + Bits(c, 7, 3)

\* The same shifts as from 24 bits.
RGB_30BIT_TO_16BIT(c) == RGB_24BIT_TO_16BIT(c)

RGB_30BIT_TO_24BIT(c) ==
  Bits(c, 29, 22) * 2^16 + Bits(c, 19, 12) * 2^8 + Bits(c, 9, 2)

RGB_2BIT_TO_10BIT(c) == c * (2^8 + 2^6 + 2^4 + 2^2 + 1)
RGB_3BIT_TO_10BIT(c) == c * (2^7 + 2^4 + 2) + c \div 2^2
RGB_5BIT_TO_10BIT(c) == c * (2^5 + 1)
RGB_6BIT_TO_10BIT(c) == c * 2^4 + c \div 2^2
RGB_8BIT_TO_10BIT(c) == c * 2^2 + c \div 2^6

\* Blue is put in green's place too.
RGB_TO_30BIT_RGB(r, g, b) == r * 2^20 + b * 2^10 + b

\* One bit of green and none of blue get through the masks.
RGB_8BIT_TO_30BIT(c) ==
  RGB_TO_30BIT_RGB(RGB_3BIT_TO_10BIT(Bits(c, 7, 5)),
                   RGB_3BIT_TO_10BIT(Bits(c, 3, 3) * 2),
                   RGB_2BIT_TO_10BIT(0))

RGB_16BIT_TO_30BIT(c) ==
  RGB_TO_30BIT_RGB(RGB_5BIT_TO_10BIT(Red(c)), RGB_6BIT_TO_10BIT(Green(c)),
                   RGB_5BIT_TO_10BIT(Blue(c)))

RGB_24BIT_TO_30BIT(c) ==
  RGB_TO_30BIT_RGB(RGB_8BIT_TO_10BIT(Bits(c, 23, 16)),
                   RGB_8BIT_TO_10BIT(Bits(c, 15, 8)),
                   RGB_8BIT_TO_10BIT(Bits(c, 7, 0)))

RGB_8BIT_TO_16BIT(c)  == RGB_30BIT_TO_16BIT(RGB_8BIT_TO_30BIT(c))
RGB_8BIT_TO_24BIT(c)  == RGB_30BIT_TO_24BIT(RGB_8BIT_TO_30BIT(c))
RGB_16BIT_TO_24BIT(c) == RGB_30BIT_TO_24BIT(RGB_16BIT_TO_30BIT(c))

-----------------------------------------------------------------------------
(* A pixel is drawn in a colour, and the resampler sends it on.            *)

SoftwareColoursInit ==
  /\ stream_in_data = 0 /\ stream_out_data = Nothing
  /\ RGB \in BOOLEAN /\ meant = 0 /\ way = "none"

Draw(pixel, colour, how) ==
  /\ stream_in_data' = pixel /\ meant' = colour /\ way' = how
  /\ stream_out_data' = Nothing
  /\ UNCHANGED RGB

\* A colour is meant by a name that both tables have.
DrawNamed ==
  \/ /\ RGB
     /\ \E name \in DOMAIN Names16 \cap DOMAIN Names24 :
          Draw(Names16[name], Names24[name], "named")
  \/ /\ ~RGB
     /\ \E name \in DOMAIN BGRNames16 \cap DOMAIN BGRNames24 :
          Draw(BGRNames16[name], BGRNames24[name], "named")

DrawNarrowed == \E c \in Colours24 : Draw(RGB_24BIT_TO_16BIT(c), c, "narrowed")

\* A colour of one byte; of two, made three and two again; and of three, made
\* thirty bits and three again.
DrawWidened ==
  \/ \E c \in 0..255 :
       Draw(RGB_8BIT_TO_16BIT(c),
            Bits(c, 7, 5) * 2^21 + Bits(c, 4, 2) * 2^13 + Bits(c, 1, 0) * 2^6,
            "widened")
  \/ \E c \in Colours :
       Draw(RGB_24BIT_TO_16BIT(RGB_16BIT_TO_24BIT(c)),
            Red(c) * 2^19 + Green(c) * 2^10 + Blue(c) * 2^3, "widened")
  \/ \E c \in Colours24 :
       Draw(RGB_24BIT_TO_16BIT(RGB_30BIT_TO_24BIT(RGB_24BIT_TO_30BIT(c))), c,
            "widened")

SoftwareColoursNext ==
  \/ DrawNamed
  \/ DrawNarrowed
  \/ DrawWidened
  \/ Resample /\ UNCHANGED <<RGB, meant, way>>

SoftwareColoursSpec ==
  SoftwareColoursInit /\ [][SoftwareColoursNext]_softwareColourVars

-----------------------------------------------------------------------------
(* Properties. *)

\* The resampler sends on the byte of the colour meant.
Shown ==
  stream_out_data # Nothing => stream_out_data = RGB_24BIT_TO_8BIT(meant)

\* What the driver's macros for fewer bits do is what the hardware does: by
\* whichever of them a colour becomes a byte, and in however many steps, it is
\* the same byte.
NarrowedColoursShown ==
  /\ way = "narrowed" => Shown
  /\ stream_out_data # Nothing =>
       stream_out_data = RGB_16BIT_TO_8BIT(stream_in_data)

\* The number of sixteen bits that the tables have for one of three bytes: what
\* the header's own macro makes of it, without the low bit of green.
Sixteen(colour) ==
  LET pixel == vid_color_convert24_16_m(colour)
  IN  pixel - Bits(pixel, 5, 5) * 2^5

\* ROYALBLUE_16 is 0x9080, where ROYALBLUE_24, 0x4169E1, would be 0xE348.
Misnamed == RGB /\ meant = Names24.ROYALBLUE

\* Both tables of a setting name the same colours, every name but the one that
\* is known to be wrong; and that one is.
NamesAgree ==
  way = "named" => (stream_in_data = Sixteen(meant) <=> ~Misnamed)

\* A program's colours can be trusted as far as the header's two tables, but for
\* ROYALBLUE, and the conversions to fewer bits go.
ColoursTrue == NarrowedColoursShown /\ NamesAgree

\* What simple_graphics.h says of its names with RGB set to 1: "Use these
\* colours when in RGB format", which is the format of the hardware.
NamedColoursShown == way = "named" /\ RGB => Shown

\* What the driver says of its macros: "Increase the number of bits".  A colour
\* made wider is still the colour.
WidenedColoursShown == way = "widened" => Shown
=============================================================================
