CONSTANTS
  Upload = {u1, u2}
  Laptop = {l1}
  NoLaptop = NoLaptop
  Chunk <- Chunks
  maxImageSize = 2
  MaxBytes = 3
  Window = 2
SPECIFICATION FairSpec
INVARIANTS
  TypeOK
  ImagesWhole
  AnswersTrue
PROPERTIES
  AlbumSpec
  UploadAnswered
